---- MODULE Spec2Model ----
(***************************************************************************)
(* A model of the Hyrox ticket monitors: check_hyrox_pages.py (tree        *)
(* crawler with stateful diffing), hyrox_checker.py and                    *)
(* sg_hyrox_checker.py (keyword-categorized monitors).                     *)
(*                                                                         *)
(* Strings are sequences of code points, so that normalisation, prefix     *)
(* tests and Python's lexicographic ordering are computed, not assumed.    *)
(***************************************************************************)
EXTENDS Integers, Sequences, FiniteSets, TLC

VARIABLES
    \* normalize_text on its own
    tx_in,          \* the string as scraped
    tx_out,         \* the value after tx_calls applications
    tx_prev,        \* the value before the last application
    tx_calls,       \* number of applications so far
    \* scrape_current_view on its own
    sv_rows,        \* the ticket rows of the rendered view
    sv_excl,        \* the configured exclude_prefixes
    sv_out,         \* the tickets scrape_current_view returned
    sv_menu,        \* the tickets traverse_menu returned on that view
    sv_done,        \* the view has been scraped
    sv_els,         \* the ".ticket-type" elements of a category view
    sv_tickets,     \* the ticket_objects a categorized monitor built from them
    \* traverse_menu on its own
    tm_page,        \* the checkout page
    tm_faults,      \* what goes wrong on which branch
    tm_excl,        \* the configured exclude_prefixes
    tm_walk,        \* what traverse_menu left behind
    tm_done,        \* traverse_menu has returned or raised
    \* check_hyrox_pages.main on one configured site
    config,         \* the site's entry of config.json
    status_file,    \* the site's status file
    pc,             \* "site": about to process the site; "result": processed
    world,          \* what this cycle meets
    prev_file,      \* the status file as the cycle found it
    out,            \* what process_ticket_details_site left behind
    changes_detected,   \* the run's changes_detected output
    \* the keyword-categorized monitors
    kw_monitor,     \* "sg" (sg_hyrox_checker.py) or "hyrox" (hyrox_checker.py)
    kw_file,        \* the status file
    kw_pc,          \* "run": about to run; "done": the run is over
    kw_env,         \* the page and the failure this run meets
    kw_prev_file,   \* the status file as the run found it
    kw_out,         \* what the run left behind
    \* the batch loops of check_hyrox_pages.main and hyrox_checker.main
    b_monitor,      \* "pages" (check_hyrox_pages.py) or "hyrox" (hyrox_checker.py)
    b_boot,         \* what the run meets before its loop
    b_sites,        \* the configured sites: what goes wrong at each
    b_i,            \* the index of the site the loop is at
    b_attempted,    \* the sites processed so far, in order
    b_change,       \* the run's change flag
    b_pc,           \* "start", "loop", "done" or "crashed"
    \* generate_availability_matrix over the configured sites
    mx_sites,       \* the names of the sites of config.json, in order
    mx_status,      \* the status file of each site
    mx_state_file,  \* the matrix state file
    mx_pc,          \* "idle": between runs; "done": the matrix was generated
    mx_out,         \* what generate_availability_matrix left behind
    \* execute_checkout_scraping for one site, call after call
    rp_file,        \* the site's status file
    rp_last,        \* what the call before the latest wrote
    rp_out          \* what the latest call left behind

textVars == <<tx_in, tx_out, tx_prev, tx_calls>>

scrapeVars == <<sv_rows, sv_excl, sv_out, sv_menu, sv_done, sv_els, sv_tickets>>

traverseVars == <<tm_page, tm_faults, tm_excl, tm_walk, tm_done>>

siteVars == <<config, status_file, pc, world, prev_file, out, changes_detected>>

keywordVars == <<kw_monitor, kw_file, kw_pc, kw_env, kw_prev_file, kw_out>>

batchVars == <<b_monitor, b_boot, b_sites, b_i, b_attempted, b_change, b_pc>>

matrixVars == <<mx_sites, mx_status, mx_state_file, mx_pc, mx_out>>

repeatVars == <<rp_file, rp_last, rp_out>>

vars == <<textVars, scrapeVars, traverseVars, siteVars, keywordVars, batchVars,
          matrixVars, repeatVars>>

-----------------------------------------------------------------------------
(* Bounds of the model *)

MaxLen == 5        \* longest scraped string given to normalize_text
MaxCalls == 2      \* applications of normalize_text on one value
MaxNameLen == 2    \* longest raw ticket name of a scraped row
MaxViewRows == 1   \* most ticket rows of a scraped view
MaxPrefixLen == 1  \* longest configured excluded prefix
MaxPrefixes == 1   \* most configured excluded prefixes
MaxLeafRows == 1   \* most ticket rows of a leaf view of a checkout page
MaxFaults == 1     \* most branches of a checkout page that go wrong
MaxKwRows == 1     \* most ticket elements of a category view
MaxSites == 2      \* most sites of a configuration file
MaxDepth == 3      \* deepest nested call of traverse_menu the interpreter allows
MaxDetails == 1    \* most records of a snapshot read for the matrix
MaxRepeatRows == 2 \* most ticket rows of the page crawled cycle after cycle

-----------------------------------------------------------------------------
(* Strings *)

\* All sequences over S of length at most n
SeqUpTo(S, n) == UNION {[1..k -> S] : k \in 0..n}

\* [\x00-\x7F]
IsAscii(c) == c >= 0 /\ c <= 127

\* Python's \s and str.isspace() on the ASCII range:
\* \t \n \v \f \r, \x1c..\x1f and the space
IsSpace(c) == c \in {9, 10, 11, 12, 13, 28, 29, 30, 31, 32}

\* re.sub(r'[^\x00-\x7F]+', '', text)
StripNonAscii(s) == SelectSeq(s, IsAscii)

\* re.sub(r'\s+', ' ', text): every maximal whitespace run becomes one space
RECURSIVE CollapseWs(_)
CollapseWs(s) ==
    IF s = <<>> THEN <<>>
    ELSE IF IsSpace(Head(s))
         THEN IF Len(s) > 1 /\ IsSpace(s[2])
              THEN CollapseWs(Tail(s))
              ELSE <<32>> \o CollapseWs(Tail(s))
         ELSE <<Head(s)>> \o CollapseWs(Tail(s))

RECURSIVE LStrip(_)
LStrip(s) == IF s # <<>> /\ IsSpace(Head(s)) THEN LStrip(Tail(s)) ELSE s

RECURSIVE RStrip(_)
RStrip(s) ==
    IF s # <<>> /\ IsSpace(s[Len(s)]) THEN RStrip(SubSeq(s, 1, Len(s) - 1)) ELSE s

\* str.strip()
Strip(s) == LStrip(RStrip(s))

\* A slip in the order of the two substitutions: whitespace is collapsed
\* before the non-ASCII characters are removed.
normalize_text_collapse_first(text) == Strip(StripNonAscii(CollapseWs(text)))

normalize_text(text) == Strip(CollapseWs(StripNonAscii(text)))

-----------------------------------------------------------------------------
(* Ticket rows and scrape_current_view *)

\* str.lower() on one code point (ASCII and Latin-1 capitals)
Lower(c) ==
    IF (c >= 65 /\ c <= 90) \/ (c >= 192 /\ c <= 222 /\ c # 215) THEN c + 32 ELSE c

LowerStr(s) == [i \in 1..Len(s) |-> Lower(s[i])]

\* str.startswith
StartsWith(s, p) == Len(p) <= Len(s) /\ SubSeq(s, 1, Len(p)) = p

\* sub in s
Contains(sub, s) ==
    \E i \in 0..(Len(s) - Len(sub)) : SubSeq(s, i + 1, i + Len(sub)) = sub

\* text.split('\n')[0]
RECURSIVE FirstLine(_)
FirstLine(s) ==
    IF s = <<>> \/ Head(s) = 10 THEN <<>> ELSE <<Head(s)>> \o FirstLine(Tail(s))

\* A rendered ".ticket-type" row: its ".vi-font-semibold" name element (when
\* has_name), the row's own text, and the state of its "Add" button.
ButtonStates == {"none", "hidden", "disabled", "enabled"}

\* A ".ticket-type" row: whether it has a ".vi-font-semibold" name element
\* and that element's text, the row's whole text, its "Add" button, and
\* whether the row carries a sold-out CSS class
RowWith(has_name, raw, btn, sold_out_class) ==
    [has_name |-> has_name, name |-> IF has_name THEN raw ELSE <<>>,
     text |-> raw, btn |-> btn, sold_out_class |-> sold_out_class]

Row(raw, btn) == RowWith(TRUE, raw, btn, FALSE)

\* lines 237-241: the name element's text, else the first line of the row
RowRawName(row) == IF row.has_name THEN row.name ELSE FirstLine(row.text)

\* line 245: any(name.lower().startswith(p.lower()) for p in exclude_prefixes)
IsExcluded(name, exclude_prefixes) ==
    \E p \in exclude_prefixes : StartsWith(LowerStr(name), LowerStr(p))

\* The status read from the row's CSS class, as the keyword monitors do.
RowStatus_css_class(row) == IF row.sold_out_class THEN "Sold out" ELSE "Available"

\* lines 248-253
RowStatus(row) == IF row.btn = "enabled" THEN "Available" ELSE "Sold out"

\* The prefix test made on the text as scraped instead of the normalised name.
RowTicket_raw_check(row, exclude_prefixes) ==
    IF IsExcluded(RowRawName(row), exclude_prefixes)
    THEN <<>>
    ELSE <<[name |-> normalize_text(RowRawName(row)), status |-> RowStatus(row)]>>

\* The row loop without the fallback of lines 240-241: a row lacking the name
\* element is skipped.
RowTicket_skip_nameless(row, exclude_prefixes) ==
    LET name == normalize_text(row.name)
    IN  IF ~row.has_name \/ IsExcluded(name, exclude_prefixes)
        THEN <<>>
        ELSE <<[name |-> name, status |-> RowStatus(row)]>>

\* One iteration of the row loop: the tickets it appends (none or one)
RowTicket(row, exclude_prefixes) ==
    LET name == normalize_text(RowRawName(row))
    IN  IF IsExcluded(name, exclude_prefixes)
        THEN <<>>
        ELSE <<[name |-> name, status |-> RowStatus(row)]>>

RECURSIVE scrape_current_view(_, _)
scrape_current_view(rows, exclude_prefixes) ==
    IF rows = <<>> THEN <<>>
    ELSE RowTicket(Head(rows), exclude_prefixes)
             \o scrape_current_view(Tail(rows), exclude_prefixes)

-----------------------------------------------------------------------------
(* The rendered page: a hierarchy of views behind clickable options *)

\* An option element of a view: a ".card-list-item" (kind "card") or an
\* "a.vi-rounded-lg" (kind "link"); its ".vi-font-medium" child (when
\* has_div), its whole text, whether it is displayed, and the view a click
\* on it opens (NoView: the click changes nothing).
NoView == 0 - 1

Card(label, to) ==
    [kind |-> "card", has_div |-> TRUE, div_text |-> label, text |-> label,
     displayed |-> TRUE, to |-> to]

Link(label, to) ==
    [kind |-> "link", has_div |-> FALSE, div_text |-> <<>>, text |-> label,
     displayed |-> TRUE, to |-> to]

\* A view: its ticket rows, its option elements, whether a "Back" button is
\* displayed, and the view that button returns to.
View(rows, options, back, parent) ==
    [rows |-> rows, options |-> options, back |-> back, parent |-> parent]

IsCard(o) == o.kind = "card"
IsLink(o) == o.kind = "link"

\* "Tickets available" and "Select" (line 297)
TicketsAvailableText ==
    <<84, 105, 99, 107, 101, 116, 115, 32, 97, 118, 97, 105, 108, 97, 98, 108, 101>>
SelectText == <<83, 101, 108, 101, 99, 116>>

\* lines 291-295
OptionRaw(o) == IF o.has_div THEN o.div_text ELSE FirstLine(o.text)

\* lines 279-284: the cards when there are any, else the category links
Options(view) ==
    LET buttons == SelectSeq(view.options, IsCard)
    IN  IF buttons # <<>> THEN buttons ELSE SelectSeq(view.options, IsLink)

\* list(dict.fromkeys(xs)): first occurrences, in order
RECURSIVE FromKeys(_, _)
FromKeys(xs, seen) ==
    IF xs = <<>> THEN <<>>
    ELSE IF Head(xs) \in seen
         THEN FromKeys(Tail(xs), seen)
         ELSE <<Head(xs)>> \o FromKeys(Tail(xs), seen \cup {Head(xs)})

\* lines 288-300
RECURSIVE OptionLabels(_)
OptionLabels(options) ==
    IF options = <<>> THEN <<>>
    ELSE LET o == Head(options)
             raw == OptionRaw(o)
         IN  (IF /\ o.displayed
                 /\ raw # <<>>
                 /\ ~Contains(TicketsAvailableText, raw)
                 /\ ~Contains(SelectText, raw)
              THEN <<raw>> ELSE <<>>) \o OptionLabels(Tail(options))

option_list(view) == FromKeys(OptionLabels(Options(view)), {})

\* lines 310-333: the live elements of the current view that the label
\* re-resolves to, in the order the code tries them; the first is the target
ResolveTarget(view, clean_opt_text) ==
    LET is_match(e) == clean_opt_text = normalize_text(e.text) /\ e.displayed
        is_part(e) == Contains(clean_opt_text, normalize_text(e.text)) /\ e.displayed
        fresh_btns == SelectSeq(view.options, IsCard)
        fresh_links == SelectSeq(view.options, IsLink)
    IN  SelectSeq(fresh_btns, is_match)
            \o SelectSeq(fresh_links, is_match)
            \o SelectSeq(fresh_links, is_part)

\* lines 197-206: the view after click_back_button
click_back_button(page, view) ==
    IF page[view].back THEN page[view].parent ELSE view

\* What goes wrong with the branch that opens view n (faults[n]):
\*   "click"  execute_script raises on the option that opens n (line 337)
\*   "raise"  a driver call raises in traverse_menu once n is shown
\*            (find_elements, lines 225, 272, 279, 315: outside any try)
FaultKinds == {"none", "click", "raise"}

\* The walk's state: the view the browser shows, the tickets gathered so far,
\* whether an exception is propagating, the views opened by a click, the
\* clicks made (the view clicked in, the option's text, the depth of the call
\* that clicked) and the deepest call of traverse_menu entered.
Walk(view, found, raised, opened, clicks, deepest) ==
    [view |-> view, found |-> found, raised |-> raised, opened |-> opened,
     clicks |-> clicks, deepest |-> deepest]

\* line 337: one execute_script click
Click(view, text, depth) == [view |-> view, text |-> text, depth |-> depth]

Deeper(a, b) == IF a >= b THEN a ELSE b

RECURSIVE traverse_menu_depth(_, _, _, _, _)
RECURSIVE traverse_options(_, _, _, _, _, _)

\* lines 335-347: the try block on a resolved target
Interact(page, faults, exclude_prefixes, target, w, depth) ==
    IF target.to # NoView /\ faults[target.to] = "click"
    THEN w
    ELSE LET shown == IF target.to = NoView THEN w.view ELSE target.to
             results == traverse_menu_depth(page, faults, exclude_prefixes,
                                            shown, depth + 1)
             opened == w.opened \o <<shown>> \o results.opened
             clicks == w.clicks \o <<Click(w.view, target.text, depth)>>
                           \o results.clicks
             deepest == Deeper(w.deepest, results.deepest)
         IN  IF results.raised
             THEN Walk(results.view, w.found, FALSE, opened, clicks, deepest)
             ELSE Walk(click_back_button(page, results.view),
                       w.found \o results.found, FALSE, opened, clicks, deepest)

\* lines 302-347: the loop over the labels enumerated at this level
traverse_options(page, faults, exclude_prefixes, labels, w, depth) ==
    IF labels = <<>> THEN w
    ELSE LET clean_opt_text == normalize_text(Head(labels))
             targets == ResolveTarget(page[w.view], clean_opt_text)
         IN  IF IsExcluded(clean_opt_text, exclude_prefixes) \/ targets = <<>>
             THEN traverse_options(page, faults, exclude_prefixes, Tail(labels),
                                   w, depth)
             ELSE traverse_options(page, faults, exclude_prefixes, Tail(labels),
                      Interact(page, faults, exclude_prefixes, Head(targets), w, depth),
                      depth)

\* lines 259-349, called at the given depth.  The interpreter refuses a call
\* nested deeper than its recursion limit (MaxDepth here): the call at line
\* 340 raises RecursionError, an Exception, inside the caller's try block.
traverse_menu_depth(page, faults, exclude_prefixes, view, depth) ==
    IF depth > MaxDepth
    THEN Walk(view, <<>>, TRUE, <<>>, <<>>, depth)
    ELSE IF faults[view] = "raise"
    THEN Walk(view, <<>>, TRUE, <<>>, <<>>, depth)
    ELSE LET tickets_here == scrape_current_view(page[view].rows, exclude_prefixes)
         IN  IF tickets_here # <<>>
             THEN Walk(view, tickets_here, FALSE, <<>>, <<>>, depth)
             ELSE traverse_options(page, faults, exclude_prefixes,
                      option_list(page[view]),
                      Walk(view, <<>>, FALSE, <<>>, <<>>, depth), depth)

\* line 259: depth=0 unless given
traverse_menu(page, faults, exclude_prefixes, view) ==
    traverse_menu_depth(page, faults, exclude_prefixes, view, 0)

-----------------------------------------------------------------------------
(* Snapshots, the status file and the diff *)

\* Python's str ordering: lexicographic on code points
RECURSIVE StrLess(_, _)
StrLess(a, b) ==
    IF b = <<>> THEN FALSE
    ELSE IF a = <<>> THEN TRUE
    ELSE IF Head(a) # Head(b) THEN Head(a) < Head(b)
    ELSE StrLess(Tail(a), Tail(b))

\* A dict is a function on its keys; {} is the function on no key
EmptyDict == [k \in {} |-> {}]

NamesOf(tickets) == {tickets[i].name : i \in 1..Len(tickets)}

\* d[name] after "for t in tickets: d[t['name']] = ...": the last assignment
LastWith(tickets, name) ==
    tickets[CHOOSE i \in 1..Len(tickets) :
                /\ tickets[i].name = name
                /\ \A j \in (i + 1)..Len(tickets) : tickets[j].name # name]

\* The record of the first row with that name
FirstWith(tickets, name) ==
    tickets[CHOOSE i \in 1..Len(tickets) :
                /\ tickets[i].name = name
                /\ \A j \in 1..(i - 1) : tickets[j].name # name]

KeyOrder(tickets) == FromKeys([i \in 1..Len(tickets) |-> tickets[i].name], {})

\* line 376: {t['name']: t for t in all_tickets}.values(): the keys in the
\* order of their first insertion, each with the value assigned last
DictValues(tickets) ==
    [k \in 1..Len(KeyOrder(tickets)) |-> LastWith(tickets, KeyOrder(tickets)[k])]

\* sorted(xs, key=lambda x: x['name']): stable
RECURSIVE InsertByName(_, _)
InsertByName(t, sorted) ==
    IF sorted = <<>> THEN <<t>>
    ELSE IF StrLess(t.name, Head(sorted).name)
         THEN <<t>> \o sorted
         ELSE <<Head(sorted)>> \o InsertByName(t, Tail(sorted))

RECURSIVE SortedByName(_)
SortedByName(tickets) ==
    IF tickets = <<>> THEN <<>>
    ELSE InsertByName(tickets[Len(tickets)],
                      SortedByName(SubSeq(tickets, 1, Len(tickets) - 1)))

\* The details list without the dedup.
Canonical_no_dedup(all_tickets) == SortedByName(all_tickets)

\* lines 375-377: the details of the current snapshot
Canonical(all_tickets) == SortedByName(DictValues(all_tickets))

\* "found" told from whether the list is empty.
CurrentStatus_found_if_tickets(all_tickets) ==
    [General |-> [found |-> all_tickets # <<>>,
                  details |-> IF all_tickets # <<>> THEN Canonical(all_tickets)
                              ELSE <<>>]]

\* lines 373-377
CurrentStatus(all_tickets) ==
    [General |-> [found |-> TRUE,
                  details |-> IF all_tickets # <<>> THEN Canonical(all_tickets)
                              ELSE <<>>]]

\* The status file: missing, not parseable, or holding a JSON object
MissingFile == [state |-> "missing", data |-> EmptyDict]
CorruptFile == [state |-> "corrupt", data |-> EmptyDict]
JsonFile(data) == [state |-> "json", data |-> data]

\* The previous snapshot never read: every cycle starts from nothing.
LoadPrevious_unread(file) == EmptyDict

\* lines 382-385
LoadPrevious(file) == IF file.state = "json" THEN file.data ELSE EmptyDict

\* status.get("General", {}).get("details", [])
DetailsOf(status) ==
    IF "General" \in DOMAIN status THEN status["General"].details ELSE <<>>

\* sorted(list(set of names))
RECURSIVE SortNames(_)
SortNames(S) ==
    IF S = {} THEN <<>>
    ELSE LET least == CHOOSE n \in S : \A m \in S \ {n} : StrLess(n, m)
         IN  <<least>> \o SortNames(S \ {least})

\* lines 117-151: one table row
DiffRow(prev_list, curr_list, t_name) ==
    LET p_status == IF t_name \in NamesOf(prev_list)
                    THEN LastWith(prev_list, t_name).status ELSE "N/A"
        c_status == IF t_name \in NamesOf(curr_list)
                    THEN LastWith(curr_list, t_name).status ELSE "Sold out"
    IN  [name |-> t_name, current |-> c_status, previous |-> p_status,
         highlighted |-> c_status # p_status]

\* The table built from the names of the current snapshot only.
generate_diff_html_current_only(prev_status, curr_status) ==
    LET prev_list == DetailsOf(prev_status)
        curr_list == DetailsOf(curr_status)
        all_ticket_names == SortNames(NamesOf(curr_list))
        rows == [i \in 1..Len(all_ticket_names) |->
                    DiffRow(prev_list, curr_list, all_ticket_names[i])]
    IN  [rows |-> rows,
         changes_found |-> \E i \in 1..Len(rows) : rows[i].highlighted]

\* lines 84-163: the table rows and whether any status changed; the html is
\* returned only when changes_found
generate_diff_html(prev_status, curr_status) ==
    LET prev_list == DetailsOf(prev_status)
        curr_list == DetailsOf(curr_status)
        all_ticket_names == SortNames(NamesOf(prev_list) \cup NamesOf(curr_list))
        rows == [i \in 1..Len(all_ticket_names) |->
                    DiffRow(prev_list, curr_list, all_ticket_names[i])]
    IN  [rows |-> rows,
         changes_found |-> \E i \in 1..Len(rows) : rows[i].highlighted]

-----------------------------------------------------------------------------
(* check_hyrox_pages: one site's cycle *)

\* What a cycle meets: how far the adapter gets (entry), whether the checkout
\* page fails to render in time (slow), the checkout page and its faults, and
\* whether the status file can be written (disk).
Env(entry, slow, page, faults) ==
    [entry |-> entry, slow |-> slow, page |-> page, faults |-> faults,
     disk |-> "ok"]

\* How a write of the status file goes:
\*   "ok"          the snapshot is written
\*   "open_fails"  open(status_file, 'w') raises: the file is as it was
\*   "dump_fails"  json.dump raises after the file was truncated
DiskStates == {"ok", "open_fails", "dump_fails"}

\* lines 357-362: some card, ticket row or category link is present in time
ContentWait(env) ==
    /\ ~env.slow
    /\ (env.page[0].rows # <<>> \/ env.page[0].options # <<>>)

\* {"change_detected": False}
NoChange == [change_detected |-> FALSE, html_body |-> <<>>]

\* What a call leaves behind: its return value, the status file, whether an
\* exception left it, the stage it ended in, the list traverse_menu returned,
\* the snapshot it built and the number of writes of the status file.
Outcome(res, file, raised, stage, all_tickets, current_status, writes) ==
    [res |-> res, file |-> file, raised |-> raised, stage |-> stage,
     all_tickets |-> all_tickets, current_status |-> current_status,
     writes |-> writes]

Failed(file, raised, stage) ==
    Outcome(NoChange, file, raised, stage, <<>>, EmptyDict, 0)

\* The write with its exception swallowed: the call goes on as if the file had
\* been written.
WriteStatus_swallowed(o, file, disk) ==
    IF o.writes = 0 \/ disk = "ok" THEN o ELSE [o EXCEPT !.file = file]

\* lines 393-394 and 402-403: the write is not guarded, its exception leaves
\* execute_checkout_scraping before any return
WriteStatus(o, file, disk) ==
    IF o.writes = 0 \/ disk = "ok"
    THEN o
    ELSE Outcome(NoChange, IF disk = "open_fails" THEN file ELSE CorruptFile,
                 TRUE, "write_failed", o.all_tickets, o.current_status, 0)

\* The comparison without the write that syncs the file when no status
\* changed.
CompareAndStore_no_sync(all_tickets, file) ==
    LET current_status == CurrentStatus(all_tickets)
        previous_status == LoadPrevious(file)
        diff == generate_diff_html(previous_status, current_status)
    IN  IF /\ previous_status # current_status
           /\ current_status["General"].found
           /\ diff.changes_found
        THEN Outcome([change_detected |-> TRUE, html_body |-> diff.rows],
                     JsonFile(current_status), FALSE, "stored",
                     all_tickets, current_status, 1)
        ELSE Outcome(NoChange, file, FALSE, "same", all_tickets, current_status, 0)

\* lines 369-405, given the list traverse_menu returned
CompareAndStore(all_tickets, file) ==
    LET current_status == CurrentStatus(all_tickets)
        previous_status == LoadPrevious(file)
        diff == generate_diff_html(previous_status, current_status)
    IN  IF previous_status # current_status /\ current_status["General"].found
        THEN IF diff.changes_found
             THEN Outcome([change_detected |-> TRUE, html_body |-> diff.rows],
                          JsonFile(current_status), FALSE, "stored",
                          all_tickets, current_status, 1)
             ELSE Outcome(NoChange, JsonFile(current_status), FALSE, "stored",
                          all_tickets, current_status, 1)
        ELSE Outcome(NoChange, file, FALSE, "same", all_tickets, current_status, 0)

\* lines 351-405
execute_checkout_scraping(env, site_config, file) ==
    IF ~ContentWait(env)
    THEN Failed(file, FALSE, "wait_timeout")
    ELSE LET walk == traverse_menu(env.page, env.faults,
                                   site_config.exclude_prefixes, 0)
         IN  IF walk.raised
             THEN Failed(file, TRUE, "traverse_raised")
             ELSE WriteStatus(CompareAndStore(walk.found, file), file, env.disk)

\* How far an adapter gets before the checkout page:
\*   "error"      driver.get or handle_cookies raises (lines 410-411, 454-455)
\*   "no_button"  the buy button is not found (lines 419-421, 470)
\*   "no_url"     no checkout URL is resolved (lines 445-449, 507-511)
\*   "ok"         a checkout URL is resolved
Entries == {"error", "no_button", "no_url", "ok"}

\* lines 408-449
process_hyrox_event_page(env, site_config, file) ==
    CASE env.entry = "error" -> Failed(file, TRUE, "adapter_raised")
      [] env.entry = "no_button" -> Failed(file, FALSE, "no_button")
      [] env.entry = "no_url" -> Failed(file, FALSE, "no_url")
      [] OTHER -> execute_checkout_scraping(env, site_config, file)

\* lines 452-511: without a target no URL is resolved either
process_hyrox_event_page_india(env, site_config, file) ==
    CASE env.entry = "error" -> Failed(file, TRUE, "adapter_raised")
      [] env.entry \in {"no_button", "no_url"} -> Failed(file, FALSE, "no_url")
      [] OTHER -> execute_checkout_scraping(env, site_config, file)

SiteTypes == {"hyrox_event_page", "hyrox_event_page_india", "unknown"}

\* lines 520-526: the try body
Dispatch(env, site_config, file) ==
    CASE site_config.site_type = "hyrox_event_page" ->
             process_hyrox_event_page(env, site_config, file)
      [] site_config.site_type = "hyrox_event_page_india" ->
             process_hyrox_event_page_india(env, site_config, file)
      [] OTHER -> Failed(file, FALSE, "unknown_site_type")

\* The router without its try/except.
process_ticket_details_site_no_except(env, site_config, file) ==
    Dispatch(env, site_config, file)

\* lines 514-529: an exception of the adapter is turned into "no change"
process_ticket_details_site(env, site_config, file) ==
    LET o == Dispatch(env, site_config, file)
    IN  IF o.raised THEN [o EXCEPT !.res = NoChange, !.raised = FALSE] ELSE o

-----------------------------------------------------------------------------
(* The keyword-categorized monitors: sg_hyrox_checker.py, hyrox_checker.py *)

\* KEYWORDS_TO_MONITOR (sg_hyrox_checker.py:13-16), site_config['keywords']
Keywords == <<"SATURDAY | 29.11.2025", "SUNDAY | 30.11.2025">>

KeywordSet == {Keywords[i] : i \in 1..Len(Keywords)}

\* A ".ticket-type" element of a category view
KwElement(name, has_name, has_price, price, sold_out) ==
    [has_name |-> has_name, name |-> name, has_price |-> has_price,
     price |-> price, sold_out |-> sold_out]

\* sg_hyrox_checker.py:91-100, hyrox_checker.py:90-98: a missing sub-element
\* raises inside the try and the element is skipped
KwTicket(el) ==
    IF el.has_name /\ el.has_price
    THEN <<[name |-> el.name, price |-> el.price,
            status |-> IF el.sold_out THEN "Sold out" ELSE "Available"]>>
    ELSE <<>>

RECURSIVE KwTickets(_)
KwTickets(els) ==
    IF els = <<>> THEN <<>> ELSE KwTicket(Head(els)) \o KwTickets(Tail(els))

\* {keyword: {"found": False, "details": []} for keyword in keywords}
KwDefault == [k \in KeywordSet |-> [found |-> FALSE, details |-> <<>>]]

\* sg_hyrox_checker.py:33-40, hyrox_checker.py:58-64: only FileNotFoundError
\* is caught
KwLoad(file) ==
    CASE file.state = "json" -> [raised |-> FALSE, status |-> file.data]
      [] file.state = "missing" -> [raised |-> FALSE, status |-> KwDefault]
      [] OTHER -> [raised |-> TRUE, status |-> EmptyDict]

\* Where a wait times out or a driver call raises (fail):
\*   [at 0, "none"]  nowhere
\*   [at 0, "load"]  before the keyword loop (lines 69-76 / 72-79)
\*   [at i, "open"]  opening keyword i's category (lines 84-86)
\*   [at i, "back"]  going back from it (lines 104-106 / 101-103)
KwFail(at, step) == [at |-> at, step |-> step]

\* sg_hyrox_checker.py:79-106, hyrox_checker.py:81-103
RECURSIVE KwLoop(_, _, _, _)

\* "found" set only when one of the category's tickets is available.
KwLoop_found_if_available(i, page, fail, current_status) ==
    IF i > Len(Keywords)
    THEN [status |-> current_status, raised |-> FALSE]
    ELSE IF Keywords[i] \notin page.categories
         THEN KwLoop(i + 1, page, fail, current_status)
         ELSE LET keyword == Keywords[i]
                  tickets == KwTickets(page.tickets[keyword])
                  filled == [current_status EXCEPT ![keyword] =
                                [found |-> \E k \in DOMAIN tickets :
                                               tickets[k].status = "Available",
                                 details |-> tickets]]
              IN  IF fail = KwFail(i, "open")
                  THEN [status |-> current_status, raised |-> TRUE]
                  ELSE IF fail = KwFail(i, "back")
                       THEN [status |-> filled, raised |-> TRUE]
                       ELSE KwLoop(i + 1, page, fail, filled)

KwLoop(i, page, fail, current_status) ==
    IF i > Len(Keywords)
    THEN [status |-> current_status, raised |-> FALSE]
    ELSE IF Keywords[i] \notin page.categories
         THEN KwLoop(i + 1, page, fail, current_status)
         ELSE LET keyword == Keywords[i]
                  found == [current_status EXCEPT ![keyword].found = TRUE]
                  filled == [found EXCEPT ![keyword].details =
                                              KwTickets(page.tickets[keyword])]
              IN  IF fail = KwFail(i, "open")
                  THEN [status |-> found, raised |-> TRUE]
                  ELSE IF fail = KwFail(i, "back")
                       THEN [status |-> filled, raised |-> TRUE]
                       ELSE KwLoop(i + 1, page, fail, filled)

\* The try body: sg_hyrox_checker.py:64-106, hyrox_checker.py:67-103
KwScrape(page, fail) ==
    IF fail = KwFail(0, "load")
    THEN [status |-> KwDefault, raised |-> TRUE]
    ELSE KwLoop(1, page, fail, KwDefault)

\* What a run leaves behind: the status file, whether an exception left the
\* function, the change signal ("true", "false" or "unset"), the snapshot it
\* built, whether that snapshot is complete, and the writes of the file.
KwOutcome(file, raised, change, current_status, complete, writes) ==
    [file |-> file, raised |-> raised, change |-> change,
     current_status |-> current_status, complete |-> complete, writes |-> writes]

\* A snapshot without the price of its records
WithoutPrice(status) ==
    [k \in DOMAIN status |->
        [found |-> status[k].found,
         details |-> [i \in DOMAIN status[k].details |->
                         [name |-> status[k].details[i].name,
                          status |-> status[k].details[i].status]]]]

\* The comparison made on the snapshots stripped of their prices.
KwCompare_without_price(previous_status, scraped, file, raised) ==
    IF WithoutPrice(previous_status) # WithoutPrice(scraped.status)
    THEN KwOutcome(JsonFile(scraped.status), raised, "true", scraped.status,
                   ~scraped.raised, 1)
    ELSE KwOutcome(file, raised, "false", scraped.status, ~scraped.raised, 0)

\* The comparison of sg_hyrox_checker.py:113-165 and hyrox_checker.py:110-134
KwCompare(previous_status, scraped, file, raised) ==
    IF previous_status # scraped.status
    THEN KwOutcome(JsonFile(scraped.status), raised, "true", scraped.status,
                   ~scraped.raised, 1)
    ELSE KwOutcome(file, raised, "false", scraped.status, ~scraped.raised, 0)

\* sg_hyrox_checker.py:59-168: the comparison sits in the finally block, so
\* it also runs while an exception propagates
sg_main(page, fail, file) ==
    LET previous == KwLoad(file)
        scraped == KwScrape(page, fail)
    IN  IF previous.raised
        THEN KwOutcome(file, TRUE, "unset", EmptyDict, FALSE, 0)
        ELSE KwCompare(previous.status, scraped, file, scraped.raised)

\* hyrox_checker.py:47-134: the finally block only quits the driver
process_site(page, fail, file) ==
    LET previous == KwLoad(file)
        scraped == KwScrape(page, fail)
    IN  IF previous.raised
        THEN KwOutcome(file, TRUE, "unset", EmptyDict, FALSE, 0)
        ELSE IF scraped.raised
             THEN KwOutcome(file, TRUE, "unset", scraped.status, FALSE, 0)
             ELSE KwCompare(previous.status, scraped, file, FALSE)

-----------------------------------------------------------------------------
(* The availability matrix *)

\* str.upper, on the code points of the model
Upper(c) ==
    IF (c >= 97 /\ c <= 122) \/ (c >= 224 /\ c <= 254 /\ c # 247) THEN c - 32 ELSE c

UpperStr(s) == [i \in 1..Len(s) |-> Upper(s[i])]

IsNotApostrophe(c) == c # 39

\* lines 65-66: text.upper().replace("'", "")
_normalize_for_matrix(text) == SelectSeq(UpperStr(text), IsNotApostrophe)

\* lines 534-539: the labels of the rows
\* "HYROX PRO WOMEN"
HyroxProWomen ==
    <<72, 89, 82, 79, 88, 32, 80, 82, 79, 32, 87, 79, 77, 69, 78>>
\* "HYROX PRO MEN"
HyroxProMen ==
    <<72, 89, 82, 79, 88, 32, 80, 82, 79, 32, 77, 69, 78>>
\* "HYROX WOMEN"
HyroxWomen ==
    <<72, 89, 82, 79, 88, 32, 87, 79, 77, 69, 78>>
\* "HYROX MEN"
HyroxMen ==
    <<72, 89, 82, 79, 88, 32, 77, 69, 78>>
\* "HYROX PRO DOUBLES WOMEN"
HyroxProDoublesWomen ==
    <<72, 89, 82, 79, 88, 32, 80, 82, 79, 32, 68, 79, 85, 66, 76, 69, 83,
      32, 87, 79, 77, 69, 78>>
\* "HYROX PRO DOUBLES MEN"
HyroxProDoublesMen ==
    <<72, 89, 82, 79, 88, 32, 80, 82, 79, 32, 68, 79, 85, 66, 76, 69, 83,
      32, 77, 69, 78>>
\* "HYROX DOUBLES WOMEN"
HyroxDoublesWomen ==
    <<72, 89, 82, 79, 88, 32, 68, 79, 85, 66, 76, 69, 83, 32, 87, 79, 77,
      69, 78>>
\* "HYROX DOUBLES MIXED"
HyroxDoublesMixed ==
    <<72, 89, 82, 79, 88, 32, 68, 79, 85, 66, 76, 69, 83, 32, 77, 73, 88,
      69, 68>>
\* "HYROX DOUBLES MEN"
HyroxDoublesMen ==
    <<72, 89, 82, 79, 88, 32, 68, 79, 85, 66, 76, 69, 83, 32, 77, 69, 78>>
\* "HYROX WOMENS RELAY"
HyroxWomensRelay ==
    <<72, 89, 82, 79, 88, 32, 87, 79, 77, 69, 78, 83, 32, 82, 69, 76, 65, 89>>
\* "HYROX MENS RELAY"
HyroxMensRelay ==
    <<72, 89, 82, 79, 88, 32, 77, 69, 78, 83, 32, 82, 69, 76, 65, 89>>
\* "HYROX MIXED RELAY"
HyroxMixedRelay ==
    <<72, 89, 82, 79, 88, 32, 77, 73, 88, 69, 68, 32, 82, 69, 76, 65, 89>>

DISPLAY_CATEGORIES ==
    <<HyroxProWomen, HyroxProMen, HyroxWomen, HyroxMen,
      HyroxProDoublesWomen, HyroxProDoublesMen,
      HyroxDoublesWomen, HyroxDoublesMixed, HyroxDoublesMen,
      HyroxWomensRelay, HyroxMensRelay, HyroxMixedRelay>>

CategorySet == {DISPLAY_CATEGORIES[i] : i \in DOMAIN DISPLAY_CATEGORIES}

\* sorted(..., key=len, reverse=True): longest first, labels of one length
\* in the order they had
RECURSIVE InsertByLen(_, _)
InsertByLen(cat, sorted) ==
    IF sorted = <<>> THEN <<cat>>
    ELSE IF Len(Head(sorted)) >= Len(cat)
         THEN <<Head(sorted)>> \o InsertByLen(cat, Tail(sorted))
         ELSE <<cat>> \o sorted

RECURSIVE SortedByLen(_)
SortedByLen(cats) ==
    IF cats = <<>> THEN <<>>
    ELSE InsertByLen(cats[Len(cats)], SortedByLen(SubSeq(cats, 1, Len(cats) - 1)))

\* line 540
MATCHING_CATEGORIES == SortedByLen(DISPLAY_CATEGORIES)

\* No label: the record marks no cell
NoCategory == <<>>

\* lines 566-569: the first label of cats that the normalised name contains
RECURSIVE FirstContained(_, _)
FirstContained(cats, norm_name) ==
    IF cats = <<>> THEN NoCategory
    ELSE IF Contains(_normalize_for_matrix(Head(cats)), norm_name)
         THEN Head(cats)
         ELSE FirstContained(Tail(cats), norm_name)

\* The labels tried in the order they are displayed in.
MarkedCategory_display_order(t) ==
    FirstContained(DISPLAY_CATEGORIES, _normalize_for_matrix(t.name))

\* lines 565-569: the label whose cell record t marks
MarkedCategory(t) ==
    FirstContained(MATCHING_CATEGORIES, _normalize_for_matrix(t.name))

\* line 554: a row of the grid, every cell False
EmptyRow == [cat \in CategorySet |-> FALSE]

\* lines 559-561: the records of every entry of the snapshot
RECURSIVE DetailsOfKeys(_, _)
DetailsOfKeys(data, keys) ==
    IF keys = {} THEN <<>>
    ELSE LET k == CHOOSE x \in keys : TRUE
         IN  data[k].details \o DetailsOfKeys(data, keys \ {k})

\* lines 563-569: the row after the records of one status file
RECURSIVE MarkTickets(_, _)
MarkTickets(tickets, row) ==
    IF tickets = <<>> THEN row
    ELSE LET t == Head(tickets)
             cat == MarkedCategory(t)
         IN  MarkTickets(Tail(tickets),
                 IF t.status = "Available" /\ cat # NoCategory
                 THEN [row EXCEPT ![cat] = TRUE]
                 ELSE row)

\* lines 556-570: the grid after the status files of the sites; a file that
\* cannot be read leaves its row as it is
RECURSIVE MarkSites(_, _, _)
MarkSites(sites, status, curr_matrix) ==
    IF sites = <<>> THEN curr_matrix
    ELSE LET name == Head(sites)
             file == status[name]
         IN  MarkSites(Tail(sites), status,
                 IF file.state = "json"
                 THEN [curr_matrix EXCEPT ![name] =
                          MarkTickets(DetailsOfKeys(file.data, DOMAIN file.data), @)]
                 ELSE curr_matrix)

\* prev_matrix.get(name, {}).get(cat, False)
PrevCell(prev_matrix, name, cat) ==
    IF name \in DOMAIN prev_matrix /\ cat \in DOMAIN prev_matrix[name]
    THEN prev_matrix[name][cat]
    ELSE FALSE

\* The "X" drawn whenever the prior grid has the cell.
IsFlipped_known_cells(curr_matrix, prev_matrix, name, cat) ==
    /\ name \in DOMAIN prev_matrix
    /\ curr_matrix[name][cat] # PrevCell(prev_matrix, name, cat)

\* lines 597-601: the cell gets an "X"
IsFlipped(curr_matrix, prev_matrix, name, cat) ==
    curr_matrix[name][cat] # PrevCell(prev_matrix, name, cat)

\* What generate_availability_matrix leaves behind: the prior grid it
\* loaded, the grid it built, the cells drawn with an "X", the
\* matrix_changed output, the state file and the writes of it.
MatrixOutcome(prev_matrix, curr_matrix, flipped, matrix_changed, file, writes) ==
    [prev_matrix |-> prev_matrix, curr_matrix |-> curr_matrix,
     flipped |-> flipped, matrix_changed |-> matrix_changed,
     file |-> file, writes |-> writes]

\* lines 532-615
generate_availability_matrix(sites, status, state_file) ==
    LET prev_matrix == LoadPrevious(state_file)
        site_names == {sites[i] : i \in DOMAIN sites}
        curr_matrix == MarkSites(sites, status, [n \in site_names |-> EmptyRow])
        flipped == {cell \in site_names \X CategorySet :
                       IsFlipped(curr_matrix, prev_matrix, cell[1], cell[2])}
    IN  IF curr_matrix # prev_matrix
        THEN MatrixOutcome(prev_matrix, curr_matrix, flipped, "true",
                           JsonFile(curr_matrix), 1)
        ELSE MatrixOutcome(prev_matrix, curr_matrix, flipped, "false",
                           state_file, 0)

-----------------------------------------------------------------------------
(* Inputs *)

\* 'a', ' ', '\t', '\x1f', '\x01', U+00E9
TextAlphabet == {97, 32, 9, 31, 1, 233}

\* Raw ticket names: 'a', 'b', ' ', U+00E9; prefixes: 'A', 'b'
NameAlphabet == {97, 98, 32, 233}
PrefixAlphabet == {65, 98}

ScrapeRows ==
    {Row(raw, "enabled") : raw \in SeqUpTo(NameAlphabet, MaxNameLen)}
    \cup {RowWith(has_name, <<97>>, btn, sold_out_class) :
             has_name \in BOOLEAN, btn \in ButtonStates, sold_out_class \in BOOLEAN}

\* Rows with and without the name element; 'b\na' is a row whose whole text
\* has two lines
MalformedRows ==
    {RowWith(has_name, <<97>>, btn, FALSE) :
        has_name \in BOOLEAN, btn \in {"none", "enabled"}}
    \cup {RowWith(FALSE, <<98, 10, 97>>, "enabled", FALSE)}

\* The views scraped: every short view, and the two-row views of rows with
\* and without a name element
ScrapeViews ==
    SeqUpTo(ScrapeRows, MaxViewRows) \cup {<<a, b>> : a, b \in MalformedRows}

\* Ticket elements of a category view with and without name and price
ScrapeElements ==
    {KwElement(name, has_name, has_price, "50", sold_out) :
        name \in {"HYROX MEN", "HYROX WOMEN"},
        has_name \in BOOLEAN, has_price \in BOOLEAN, sold_out \in BOOLEAN}

ScrapeElementViews ==
    (SeqUpTo(ScrapeElements, MaxKwRows) \cup {<<a, b>> : a, b \in ScrapeElements})
        \ {<<>>}

PrefixLists ==
    {P \in SUBSET SeqUpTo(PrefixAlphabet, MaxPrefixLen) : Cardinality(P) <= MaxPrefixes}

\* Labels "X", "Y", "Z", "X1", "X2"
LabelX == <<88>>
LabelY == <<89>>
LabelZ == <<90>>
LabelX1 == <<88, 49>>
LabelX2 == <<88, 50>>

\* A page that is one view
FlatPage(rows) == [n \in {0} |-> View(rows, <<>>, FALSE, 0)]

\* A menu of two cards, each opening a leaf view
MenuPage2(r1, r2, b1, b2) ==
    [n \in 0..2 |->
        CASE n = 0 -> View(<<>>, <<Card(LabelX, 1), Card(LabelY, 2)>>, FALSE, 0)
          [] n = 1 -> View(r1, <<>>, b1, 0)
          [] OTHER -> View(r2, <<>>, b2, 0)]

\* A menu of three cards, each opening a leaf view
MenuPage3(r1, r2, r3, b1, b2, b3) ==
    [n \in 0..3 |->
        CASE n = 0 -> View(<<>>, <<Card(LabelX, 1), Card(LabelY, 2),
                                    Card(LabelZ, 3)>>, FALSE, 0)
          [] n = 1 -> View(r1, <<>>, b1, 0)
          [] n = 2 -> View(r2, <<>>, b2, 0)
          [] OTHER -> View(r3, <<>>, b3, 0)]

\* A menu of two cards, the first opening a menu of two links
NestedPage(r2, r3, r4, b1, b2, b3, b4) ==
    [n \in 0..4 |->
        CASE n = 0 -> View(<<>>, <<Card(LabelX, 1), Card(LabelY, 2)>>, FALSE, 0)
          [] n = 1 -> View(<<>>, <<Link(LabelX1, 3), Link(LabelX2, 4)>>, b1, 0)
          [] n = 2 -> View(r2, <<>>, b2, 0)
          [] n = 3 -> View(r3, <<>>, b3, 1)
          [] OTHER -> View(r4, <<>>, b4, 1)]

\* A menu of two cards: a click on the first leaves the view as it is, the
\* second opens a leaf view
InertPage(r1, b1) ==
    [n \in 0..1 |->
        CASE n = 0 -> View(<<>>, <<Card(LabelX, NoView), Card(LabelY, 1)>>, FALSE, 0)
          [] OTHER -> View(r1, <<>>, b1, 0)]

\* A menu of two cards, X and Y; X opens a menu of two links, "X1" and "Y1",
\* the text of the second containing the label of the card Y
LookalikePage(r2, r3, r4, b1) ==
    [n \in 0..4 |->
        CASE n = 0 -> View(<<>>, <<Card(LabelX, 1), Card(LabelY, 2)>>, FALSE, 0)
          [] n = 1 -> View(<<>>, <<Link(<<88, 49>>, 3), Link(<<89, 49>>, 4)>>, b1, 0)
          [] n = 2 -> View(r2, <<>>, TRUE, 0)
          [] n = 3 -> View(r3, <<>>, TRUE, 1)
          [] OTHER -> View(r4, <<>>, TRUE, 1)]

\* A menu of two cards whose labels, "Y" and "Y" followed by U+00E9, differ
\* in a character that normalize_text removes
TwinPage(r1, r2) ==
    [n \in 0..2 |->
        CASE n = 0 -> View(<<>>, <<Card(LabelY, 1), Card(<<89, 233>>, 2)>>, FALSE, 0)
          [] n = 1 -> View(r1, <<>>, TRUE, 0)
          [] OTHER -> View(r2, <<>>, TRUE, 0)]

\* A menu of two links, "XY" and one whose text has the lines "Y" and "Z"
ShadowPage(r1, r2) ==
    [n \in 0..2 |->
        CASE n = 0 -> View(<<>>, <<Link(<<88, 89>>, 1), Link(<<89, 10, 90>>, 2)>>,
                           FALSE, 0)
          [] n = 1 -> View(r1, <<>>, TRUE, 0)
          [] OTHER -> View(r2, <<>>, TRUE, 0)]

\* A menu of two cards; the first has the title "X" in its ".vi-font-medium"
\* element and a second line of text, "Z"
CaptionPage(r1, r2) ==
    [n \in 0..2 |->
        CASE n = 0 -> View(<<>>, <<[Card(LabelX, 1) EXCEPT !.text = <<88, 10, 90>>],
                                    Card(LabelY, 2)>>, FALSE, 0)
          [] n = 1 -> View(r1, <<>>, TRUE, 0)
          [] OTHER -> View(r2, <<>>, TRUE, 0)]

NoFaults(page) == [n \in DOMAIN page |-> "none"]

\* The branches that go wrong: a fault, or a view without a Back button
Troubles(page, faults) ==
    Cardinality({n \in DOMAIN page : faults[n] # "none"})
        + Cardinality({n \in DOMAIN page \ {0} : ~page[n].back})

FaultsFor(page) ==
    {f \in [DOMAIN page -> FaultKinds] :
        f[0] # "click" /\ Troubles(page, f) <= MaxFaults}

\* Leaf views whose ticket names tell the leaf: view n sells chr(65 + n)
OwnRows(n) == {Row(<<65 + n>>, btn) : btn \in {"enabled", "none"}}
OwnLeaf(n) == SeqUpTo(OwnRows(n), MaxLeafRows)

TraversePages ==
    {FlatPage(r) : r \in OwnLeaf(0)}
    \cup {MenuPage3(r1, r2, r3, b1, b2, b3) :
             r1 \in OwnLeaf(1), r2 \in OwnLeaf(2), r3 \in OwnLeaf(3),
             b1 \in BOOLEAN, b2 \in BOOLEAN, b3 \in BOOLEAN}
    \cup {NestedPage(r2, r3, r4, b1, b2, b3, b4) :
             r2 \in OwnLeaf(2), r3 \in OwnLeaf(3), r4 \in OwnLeaf(4),
             b1 \in BOOLEAN, b2 \in BOOLEAN, b3 \in BOOLEAN, b4 \in BOOLEAN}
    \cup {InertPage(r1, b1) : r1 \in OwnLeaf(1), b1 \in BOOLEAN}
    \cup {LookalikePage(r2, r3, r4, b1) :
             r2 \in OwnLeaf(2), r3 \in OwnLeaf(3), r4 \in OwnLeaf(4), b1 \in BOOLEAN}
    \cup {TwinPage(r1, r2) : r1 \in OwnLeaf(1), r2 \in OwnLeaf(2)}
    \cup {ShadowPage(r1, r2) : r1 \in OwnLeaf(1), r2 \in OwnLeaf(2)}
    \cup {CaptionPage(r1, r2) : r1 \in OwnLeaf(1), r2 \in OwnLeaf(2)}

\* "x" excludes the options X, X1 and X2; "c" excludes the tickets of view 2
TraverseExcludes == {{}, {<<120>>}, {<<99>>}}

\* Ticket rows of a monitored site: "A" and "éB", available or sold out
SiteRows ==
    {Row(raw, btn) : raw \in {<<65>>, <<233, 66>>}, btn \in {"enabled", "none"}}
SiteLeaf == SeqUpTo(SiteRows, MaxLeafRows)

SitePages ==
    {FlatPage(r) : r \in SiteLeaf}
    \cup {MenuPage2(r1, r2, b1, b2) :
             r1 \in SiteLeaf, r2 \in SiteLeaf, b1 \in BOOLEAN, b2 \in BOOLEAN}

NoPage == FlatPage(<<>>)

\* The checkout pages a cycle crawls, each with the faults it can meet
CrawlEnvs ==
    {x \in {Env("ok", FALSE, page, f) :
                page \in SitePages,
                f \in UNION {[DOMAIN q -> FaultKinds] : q \in SitePages}} :
        /\ DOMAIN x.faults = DOMAIN x.page
        /\ x.faults \in FaultsFor(x.page)}

\* A flat checkout page crawled without fault while the status file cannot
\* be written
WriteFailEnvs ==
    {[Env("ok", FALSE, FlatPage(r), NoFaults(NoPage)) EXCEPT !.disk = d] :
        r \in SiteLeaf, d \in DiskStates \ {"ok"}}

\* What a call of execute_checkout_scraping meets, cycle after cycle: a flat
\* checkout page of tickets "A", available or sold out, and "éB", with the
\* status file writable or not; or a page that does not render in time
RepeatEnvs ==
    LET rows == {Row(<<65>>, "enabled"), Row(<<65>>, "none"),
                 Row(<<233, 66>>, "enabled")}
    IN  {[Env("ok", FALSE, FlatPage(r), NoFaults(NoPage)) EXCEPT !.disk = d] :
            r \in SeqUpTo(rows, MaxRepeatRows), d \in DiskStates}
        \cup {Env("ok", TRUE, NoPage, NoFaults(NoPage))}

\* What a cycle of a known site_type can meet: the adapter fails before the
\* checkout page; the checkout page does not render in time; or it is crawled
AdapterEnvs ==
    {Env(e, FALSE, NoPage, NoFaults(NoPage)) : e \in Entries \ {"ok"}}
        \cup {Env("ok", TRUE, FlatPage(r), NoFaults(NoPage)) : r \in SiteLeaf}
        \cup CrawlEnvs
        \cup WriteFailEnvs

\* What a cycle can meet
Envs(site_config) ==
    IF site_config.site_type \notin {"hyrox_event_page", "hyrox_event_page_india"}
    THEN {Env("ok", FALSE, NoPage, NoFaults(NoPage))}
    ELSE AdapterEnvs

SiteConfigs ==
    {[site_type |-> t, exclude_prefixes |-> x] : t \in SiteTypes, x \in {{}, {<<98>>}}}

\* Ticket elements of a category view: "HYROX MEN" at 50, available or sold
\* out, and at 60
KwElements ==
    {KwElement("HYROX MEN", TRUE, TRUE, "50", FALSE),
     KwElement("HYROX MEN", TRUE, TRUE, "50", TRUE),
     KwElement("HYROX MEN", TRUE, TRUE, "60", FALSE)}
KwViews == SeqUpTo(KwElements, MaxKwRows)

\* Category pages of a keyword-categorized site: the categories listed and
\* the ticket elements behind each listed keyword
KwPages ==
    {pg \in {[categories |-> c, tickets |-> t] :
                c \in SUBSET (KeywordSet \cup {"FRIDAY | 28.11.2025"}),
                t \in [KeywordSet -> KwViews]} :
        \A k \in KeywordSet \ pg.categories : pg.tickets[k] = <<>>}

KwFails ==
    {KwFail(0, "none"), KwFail(0, "load")}
    \cup {KwFail(i, step) : i \in 1..Len(Keywords), step \in {"open", "back"}}

\* Ticket names of the stored snapshots
\* "HYROX MEN"
NameMen ==
    <<72, 89, 82, 79, 88, 32, 77, 69, 78>>
\* "Hyrox Men's Relay"
NameMensRelay ==
    <<72, 121, 114, 111, 120, 32, 77, 101, 110, 39, 115, 32, 82, 101, 108,
      97, 121>>
\* "hyrox pro doubles women | sat"
NameProDoublesWomen ==
    <<104, 121, 114, 111, 120, 32, 112, 114, 111, 32, 100, 111, 117, 98,
      108, 101, 115, 32, 119, 111, 109, 101, 110, 32, 124, 32, 115, 97, 116>>
\* "HYROX MEN + HYROX WOMEN"
NameWomenAndMen ==
    <<72, 89, 82, 79, 88, 32, 77, 69, 78, 32, 43, 32, 72, 89, 82, 79, 88,
      32, 87, 79, 77, 69, 78>>
\* "SPECTATOR"
NameSpectator ==
    <<83, 80, 69, 67, 84, 65, 84, 79, 82>>

MatrixNames == {NameMen, NameMensRelay, NameProDoublesWomen, NameWomenAndMen, NameSpectator}

\* The sites of config.json: "A", and "B" once it is configured
MatrixConfigs == {<<"A">>, <<"A", "B">>}
MatrixSiteNames == {"A", "B"}

\* The records a site's snapshot can hold
MatrixTickets(name) ==
    {[name |-> n, status |-> st] :
        n \in (IF name = "A" THEN MatrixNames ELSE {NameMen}),
        st \in {"Available", "Sold out"}}

\* The snapshots check_hyrox_pages stores for a site (lines 373-377)
MatrixSnapshots(name) ==
    {CurrentStatus(all_tickets) :
        all_tickets \in SeqUpTo(MatrixTickets(name), MaxDetails)}

-----------------------------------------------------------------------------
(* Variables at rest *)

NoEnv == Env("ok", FALSE, NoPage, NoFaults(NoPage))
NoOut == Failed(MissingFile, FALSE, "none")
NoWalk == Walk(0, <<>>, FALSE, <<>>, <<>>, 0)
NoKwEnv == [page |-> [categories |-> {}, tickets |-> <<>>], fail |-> KwFail(0, "none")]
NoKwOut == KwOutcome(MissingFile, FALSE, "unset", EmptyDict, FALSE, 0)

TextAtRest == tx_in = <<>> /\ tx_out = <<>> /\ tx_prev = <<>> /\ tx_calls = 0

ScrapeAtRest ==
    /\ sv_rows = <<>> /\ sv_excl = {} /\ sv_out = <<>> /\ sv_menu = <<>> /\ sv_done = FALSE
    /\ sv_els = <<>> /\ sv_tickets = <<>>

TraverseAtRest ==
    /\ tm_page = NoPage
    /\ tm_faults = NoFaults(NoPage)
    /\ tm_excl = {}
    /\ tm_walk = NoWalk
    /\ tm_done = FALSE

SiteAtRest ==
    /\ config = [site_type |-> "unknown", exclude_prefixes |-> {}]
    /\ status_file = MissingFile
    /\ pc = "site"
    /\ world = NoEnv
    /\ prev_file = MissingFile
    /\ out = NoOut
    /\ changes_detected = FALSE

KeywordAtRest ==
    /\ kw_monitor = "sg"
    /\ kw_file = MissingFile
    /\ kw_pc = "run"
    /\ kw_env = NoKwEnv
    /\ kw_prev_file = MissingFile
    /\ kw_out = NoKwOut

BatchAtRest ==
    /\ b_monitor = "pages"
    /\ b_boot = "ok"
    /\ b_sites = <<>>
    /\ b_i = 1
    /\ b_attempted = <<>>
    /\ b_change = FALSE
    /\ b_pc = "start"

NoMatrixOut == MatrixOutcome(EmptyDict, EmptyDict, {}, "unset", MissingFile, 0)

MatrixAtRest ==
    /\ mx_sites = <<>>
    /\ mx_status = EmptyDict
    /\ mx_state_file = MissingFile
    /\ mx_pc = "idle"
    /\ mx_out = NoMatrixOut

NoCall == [wrote |-> FALSE, all_tickets |-> <<>>]

RepeatAtRest == rp_file = MissingFile /\ rp_last = NoCall /\ rp_out = NoOut

-----------------------------------------------------------------------------
(* normalize_text applied, and applied again, to a scraped string *)

InitText ==
    /\ tx_in \in SeqUpTo(TextAlphabet, MaxLen)
    /\ tx_out = tx_in
    /\ tx_prev = tx_in
    /\ tx_calls = 0
    /\ ScrapeAtRest /\ TraverseAtRest /\ SiteAtRest /\ KeywordAtRest /\ BatchAtRest /\ MatrixAtRest /\ RepeatAtRest

NormalizeText ==
    /\ tx_calls < MaxCalls
    /\ tx_out' = normalize_text(tx_out)
    /\ tx_prev' = tx_out
    /\ tx_calls' = tx_calls + 1
    /\ UNCHANGED <<tx_in, scrapeVars, traverseVars, siteVars, keywordVars, batchVars, matrixVars, repeatVars>>

SpecNormalize == InitText /\ [][NormalizeText]_vars

-----------------------------------------------------------------------------
(* scrape_current_view on a rendered leaf view *)

\* The view is a leaf view of a checkout page (sv_els empty) or a category
\* view of a categorized site
InitScrape ==
    /\ \/ /\ sv_rows \in ScrapeViews
          /\ sv_excl \in PrefixLists
          /\ sv_els = <<>>
       \/ /\ sv_rows = <<>>
          /\ sv_excl = {}
          /\ sv_els \in ScrapeElementViews
    /\ sv_tickets = <<>>
    /\ sv_out = <<>>
    /\ sv_menu = <<>>
    /\ sv_done = FALSE
    /\ TextAtRest /\ TraverseAtRest /\ SiteAtRest /\ KeywordAtRest /\ BatchAtRest /\ MatrixAtRest /\ RepeatAtRest

ScrapeCurrentView ==
    /\ ~sv_done
    /\ sv_els = <<>>
    /\ sv_out' = scrape_current_view(sv_rows, sv_excl)
    /\ sv_menu' = traverse_menu(FlatPage(sv_rows), NoFaults(NoPage), sv_excl, 0).found
    /\ sv_done' = TRUE
    /\ UNCHANGED <<sv_rows, sv_excl, sv_els, sv_tickets, textVars, traverseVars,
                   siteVars, keywordVars, batchVars, matrixVars, repeatVars>>

\* The ticket loop of the categorized monitors on one category view
ScrapeCategoryView ==
    /\ ~sv_done
    /\ sv_els # <<>>
    /\ sv_tickets' = KwTickets(sv_els)
    /\ sv_done' = TRUE
    /\ UNCHANGED <<sv_rows, sv_excl, sv_out, sv_menu, sv_els, textVars, traverseVars,
                   siteVars, keywordVars, batchVars, matrixVars, repeatVars>>

NextScrape == ScrapeCurrentView \/ ScrapeCategoryView

SpecScrape == InitScrape /\ [][NextScrape]_vars

-----------------------------------------------------------------------------
(* traverse_menu on a checkout page *)

InitTraverse ==
    /\ tm_page \in TraversePages
    /\ tm_faults \in FaultsFor(tm_page)
    /\ tm_excl \in TraverseExcludes
    /\ tm_walk = NoWalk
    /\ tm_done = FALSE
    /\ TextAtRest /\ ScrapeAtRest /\ SiteAtRest /\ KeywordAtRest /\ BatchAtRest /\ MatrixAtRest /\ RepeatAtRest

TraverseMenu ==
    /\ ~tm_done
    /\ tm_walk' = traverse_menu(tm_page, tm_faults, tm_excl, 0)
    /\ tm_done' = TRUE
    /\ UNCHANGED <<tm_page, tm_faults, tm_excl, textVars, scrapeVars, siteVars,
                   keywordVars, batchVars, matrixVars, repeatVars>>

SpecTraverse == InitTraverse /\ [][TraverseMenu]_vars

-----------------------------------------------------------------------------
(* check_hyrox_pages.main on one configured site, run after run *)

Init ==
    /\ config \in SiteConfigs
    /\ status_file \in {MissingFile, CorruptFile}
    /\ pc = "site"
    /\ world = NoEnv
    /\ prev_file = status_file
    /\ out = NoOut
    /\ changes_detected = FALSE
    /\ TextAtRest /\ ScrapeAtRest /\ TraverseAtRest /\ KeywordAtRest /\ BatchAtRest /\ MatrixAtRest /\ RepeatAtRest

\* main, line 641: the site is processed
ProcessTicketDetailsSite ==
    /\ pc = "site"
    /\ \E e \in Envs(config) :
          /\ world' = e
          /\ out' = process_ticket_details_site(e, config, status_file)
    /\ status_file' = out'.file
    /\ prev_file' = status_file
    /\ pc' = "result"
    /\ UNCHANGED <<config, changes_detected, textVars, scrapeVars,
                   traverseVars, keywordVars, batchVars, matrixVars, repeatVars>>

\* main, lines 642-655: the result is taken up and the run ends; the next
\* scheduled run finds the status file and nothing else
MainFinish ==
    /\ pc = "result"
    /\ changes_detected' = out.res.change_detected
    /\ pc' = "site"
    /\ world' = NoEnv
    /\ out' = NoOut
    /\ prev_file' = status_file
    /\ UNCHANGED <<config, status_file, textVars, scrapeVars, traverseVars,
                   keywordVars, batchVars, matrixVars, repeatVars>>

Next == ProcessTicketDetailsSite \/ MainFinish

Spec == Init /\ [][Next]_vars

-----------------------------------------------------------------------------
(* The keyword-categorized monitors, run after run *)

InitKeyword ==
    /\ kw_monitor \in {"sg", "hyrox"}
    /\ kw_file \in {MissingFile, CorruptFile}
    /\ kw_pc = "run"
    /\ kw_env = NoKwEnv
    /\ kw_prev_file = kw_file
    /\ kw_out = NoKwOut
    /\ TextAtRest /\ ScrapeAtRest /\ TraverseAtRest /\ SiteAtRest /\ BatchAtRest /\ MatrixAtRest /\ RepeatAtRest

\* sg_hyrox_checker.py: main
SgMain ==
    /\ kw_monitor = "sg"
    /\ kw_pc = "run"
    /\ \E page \in KwPages, fail \in KwFails :
          /\ kw_env' = [page |-> page, fail |-> fail]
          /\ kw_out' = sg_main(page, fail, kw_file)
    /\ kw_file' = kw_out'.file
    /\ kw_prev_file' = kw_file
    /\ kw_pc' = "done"
    /\ UNCHANGED <<kw_monitor, textVars, scrapeVars, traverseVars, siteVars, batchVars, matrixVars, repeatVars>>

\* hyrox_checker.py: process_site, called by main (line 156)
ProcessSite ==
    /\ kw_monitor = "hyrox"
    /\ kw_pc = "run"
    /\ \E page \in KwPages, fail \in KwFails :
          /\ kw_env' = [page |-> page, fail |-> fail]
          /\ kw_out' = process_site(page, fail, kw_file)
    /\ kw_file' = kw_out'.file
    /\ kw_prev_file' = kw_file
    /\ kw_pc' = "done"
    /\ UNCHANGED <<kw_monitor, textVars, scrapeVars, traverseVars, siteVars, batchVars, matrixVars, repeatVars>>

\* The process exits; the next scheduled run finds the status file only
KwExit ==
    /\ kw_pc = "done"
    /\ kw_pc' = "run"
    /\ kw_env' = NoKwEnv
    /\ kw_out' = NoKwOut
    /\ kw_prev_file' = kw_file
    /\ UNCHANGED <<kw_monitor, kw_file, textVars, scrapeVars, traverseVars, siteVars, batchVars, matrixVars, repeatVars>>

NextKeyword == SgMain \/ ProcessSite \/ KwExit

SpecKeyword == InitKeyword /\ [][NextKeyword]_vars

-----------------------------------------------------------------------------
(* The batch loops: check_hyrox_pages.main and hyrox_checker.main *)

\* What goes wrong while one site is processed:
\*   "none"         nothing, and nothing changed
\*   "change"       nothing, and a change is detected
\*   "entry"        the entry to the ticket widget is not found
\*   "timeout"      a wait times out
\*   "exception"    the adapter, the traversal or the scrape raises
\*   "write_error"  a change is detected and writing the status file raises
\*   "email_error"  a change is detected and sending the email raises
SiteFailures ==
    {"none", "change", "entry", "timeout", "exception", "write_error", "email_error"}

\* What a run meets before its loop:
\*   "ok"            nothing
\*   "no_creds"      MAIL_USERNAME or MAIL_PASSWORD is not set
\*   "no_config"     the configuration file is not found
\*   "driver_error"  setup_driver raises (check_hyrox_pages.main starts the
\*                   driver before its loop, hyrox_checker per site)
Boots(monitor) ==
    IF monitor = "pages"
    THEN {"ok", "no_creds", "no_config", "driver_error"}
    ELSE {"ok", "no_creds", "no_config"}

\* What one call leaves to the loop: whether an exception leaves it and
\* whether it reports a change
SiteCall(raised, change) == [raised |-> raised, change |-> change]

\* check_hyrox_pages.py:514-529 with send_email (40-57) as main calls them:
\* the router's except turns every exception of the adapter, of the traversal
\* and of the write into {"change_detected": False}; send_email catches its
\* own exceptions
PagesSiteCall(kind) == SiteCall(FALSE, kind \in {"change", "email_error"})

\* hyrox_checker.py:47-134: a timeout or an exception of the scrape leaves
\* process_site after the finally block, a write error at lines 116-117;
\* send_email catches its own exceptions
HyroxSiteCall(kind) ==
    SiteCall(kind \in {"entry", "timeout", "exception", "write_error"},
             kind \in {"change", "email_error"})

\* What one iteration of the loop leaves: whether the exception leaves main
\* and whether the change flag is raised
LoopStep(crashed, change) == [crashed |-> crashed, change |-> change]

\* The loop body without its try/except.
main_iteration_no_except(monitor, kind) ==
    LET call == IF monitor = "pages" THEN PagesSiteCall(kind) ELSE HyroxSiteCall(kind)
    IN  LoopStep(call.raised, ~call.raised /\ call.change)

\* check_hyrox_pages.py:640-649, hyrox_checker.py:155-159: the try/except
\* around one site
main_iteration(monitor, kind) ==
    LET call == IF monitor = "pages" THEN PagesSiteCall(kind) ELSE HyroxSiteCall(kind)
    IN  LoopStep(FALSE, ~call.raised /\ call.change)

InitBatch ==
    /\ b_monitor \in {"pages", "hyrox"}
    /\ b_boot \in Boots(b_monitor)
    /\ b_sites \in SeqUpTo(SiteFailures, MaxSites)
    /\ b_i = 1
    /\ b_attempted = <<>>
    /\ b_change = FALSE
    /\ b_pc = "start"
    /\ TextAtRest /\ ScrapeAtRest /\ TraverseAtRest /\ SiteAtRest /\ KeywordAtRest
    /\ MatrixAtRest /\ RepeatAtRest

\* check_hyrox_pages.py:631-637, hyrox_checker.py:139-152: what main does
\* before its loop
BatchStart ==
    /\ b_pc = "start"
    /\ b_pc' = CASE b_boot = "driver_error" -> "crashed"
                 [] b_boot = "no_config" -> "done"
                 [] b_boot = "no_creds" /\ b_monitor = "hyrox" -> "done"
                 [] OTHER -> "loop"
    /\ UNCHANGED <<b_monitor, b_boot, b_sites, b_i, b_attempted, b_change,
                   textVars, scrapeVars, traverseVars, siteVars, keywordVars,
                   matrixVars, repeatVars>>

\* One iteration of the loop over the sites
BatchSite ==
    /\ b_pc = "loop"
    /\ b_i <= Len(b_sites)
    /\ LET step == main_iteration(b_monitor, b_sites[b_i])
       IN  /\ b_attempted' = Append(b_attempted, b_i)
           /\ b_change' = (b_change \/ step.change)
           /\ b_pc' = IF step.crashed THEN "crashed" ELSE "loop"
           /\ b_i' = b_i + 1
    /\ UNCHANGED <<b_monitor, b_boot, b_sites,
                   textVars, scrapeVars, traverseVars, siteVars, keywordVars,
                   matrixVars, repeatVars>>

\* check_hyrox_pages.py:651-655, hyrox_checker.py:161-163: the loop is over
BatchFinish ==
    /\ b_pc = "loop"
    /\ b_i > Len(b_sites)
    /\ b_pc' = "done"
    /\ UNCHANGED <<b_monitor, b_boot, b_sites, b_i, b_attempted, b_change,
                   textVars, scrapeVars, traverseVars, siteVars, keywordVars,
                   matrixVars, repeatVars>>

NextBatch == BatchStart \/ BatchSite \/ BatchFinish

\* A started run goes on until it returns or an exception ends it
SpecBatch == InitBatch /\ [][NextBatch]_vars /\ WF_vars(NextBatch)

-----------------------------------------------------------------------------
(* generate_availability_matrix, run after run, while the monitor stores new
   snapshots and sites are added to and removed from config.json *)

InitMatrix ==
    /\ mx_sites \in MatrixConfigs
    /\ mx_status \in [MatrixSiteNames -> {MissingFile, CorruptFile}]
    /\ mx_state_file \in {MissingFile, CorruptFile}
    /\ mx_pc = "idle"
    /\ mx_out = NoMatrixOut
    /\ TextAtRest /\ ScrapeAtRest /\ TraverseAtRest /\ SiteAtRest /\ KeywordAtRest
    /\ BatchAtRest /\ RepeatAtRest

\* execute_checkout_scraping, lines 393-403: a configured site's snapshot is
\* stored
StoreSnapshot ==
    /\ mx_pc = "idle"
    /\ \E i \in DOMAIN mx_sites :
          \E snapshot \in MatrixSnapshots(mx_sites[i]) :
              mx_status' = [mx_status EXCEPT ![mx_sites[i]] = JsonFile(snapshot)]
    /\ UNCHANGED <<mx_sites, mx_state_file, mx_pc, mx_out, textVars, scrapeVars,
                   traverseVars, siteVars, keywordVars, batchVars, repeatVars>>

\* config.json is edited between two runs
ConfigureSites ==
    /\ mx_pc = "idle"
    /\ mx_sites' \in MatrixConfigs \ {mx_sites}
    /\ UNCHANGED <<mx_status, mx_state_file, mx_pc, mx_out, textVars, scrapeVars,
                   traverseVars, siteVars, keywordVars, batchVars, repeatVars>>

\* line 659: generate_availability_matrix()
GenerateAvailabilityMatrix ==
    /\ mx_pc = "idle"
    /\ mx_out' = generate_availability_matrix(mx_sites, mx_status, mx_state_file)
    /\ mx_state_file' = mx_out'.file
    /\ mx_pc' = "done"
    /\ UNCHANGED <<mx_sites, mx_status, textVars, scrapeVars, traverseVars,
                   siteVars, keywordVars, batchVars, repeatVars>>

\* The process exits; the next run finds the files only
MatrixExit ==
    /\ mx_pc = "done"
    /\ mx_pc' = "idle"
    /\ mx_out' = NoMatrixOut
    /\ UNCHANGED <<mx_sites, mx_status, mx_state_file, textVars, scrapeVars,
                   traverseVars, siteVars, keywordVars, batchVars, repeatVars>>

NextMatrix == StoreSnapshot \/ ConfigureSites \/ GenerateAvailabilityMatrix \/ MatrixExit

SpecMatrix == InitMatrix /\ [][NextMatrix]_vars

-----------------------------------------------------------------------------
(* execute_checkout_scraping for one site, call after call: each call crawls
   a flat checkout page and finds the status file as the call before left it *)

InitRepeat ==
    /\ rp_file \in {MissingFile, CorruptFile}
    /\ rp_last = NoCall
    /\ rp_out = NoOut
    /\ TextAtRest /\ ScrapeAtRest /\ TraverseAtRest /\ SiteAtRest /\ KeywordAtRest
    /\ BatchAtRest /\ MatrixAtRest

\* What a call wrote: the list whose snapshot it wrote, if it wrote
Wrote(o) ==
    IF o.writes > 0 THEN [wrote |-> TRUE, all_tickets |-> o.all_tickets] ELSE NoCall

\* One more cycle: lines 351-405
ExecuteCheckoutScraping ==
    /\ \E e \in RepeatEnvs :
          rp_out' = execute_checkout_scraping(
                        e, [site_type |-> "hyrox_event_page", exclude_prefixes |-> {}],
                        rp_file)
    /\ rp_file' = rp_out'.file
    /\ rp_last' = Wrote(rp_out)
    /\ UNCHANGED <<textVars, scrapeVars, traverseVars, siteVars, keywordVars,
                   batchVars, matrixVars>>

SpecRepeat == InitRepeat /\ [][ExecuteCheckoutScraping]_vars

-----------------------------------------------------------------------------
(* Properties *)

\* The page with every Back button in place
Repaired(page) == [n \in DOMAIN page |-> [page[n] EXCEPT !.back = (n # 0)]]

\* The tickets a walk without any failure gathers from view n on
Reference(page, exclude_prefixes, n) ==
    traverse_menu(Repaired(page), NoFaults(page), exclude_prefixes, n).found

\* name starts with prefix p, letter case aside
StartsWithCI(name, p) ==
    /\ Len(p) <= Len(name)
    /\ \A i \in 1..Len(p) : Lower(name[i]) = Lower(p[i])

StrictlyIncreasing(tickets) ==
    \A i \in 1..(Len(tickets) - 1) : StrLess(tickets[i].name, tickets[i + 1].name)

\* The cycle did not get to the ticket widget: unknown site_type, the adapter
\* raised or found no entry, or the content wait timed out
Unreached ==
    \/ config.site_type \notin {"hyrox_event_page", "hyrox_event_page_india"}
    \/ world.entry # "ok"
    \/ ~ContentWait(world)

\* C1: whenever a site's adapter cannot reach the ticket widget (buy button
\* not found, no checkout URL, unknown site_type, an exception inside the
\* adapter, content wait timed out), process_ticket_details_site returns
\* change_detected = false without raising and the status file is left
\* exactly as it was before the cycle.
C1_UnreachedKeepsFile ==
    (pc = "result" /\ Unreached) =>
        /\ ~out.res.change_detected
        /\ ~out.raised
        /\ out.writes = 0
        /\ status_file = prev_file

\* The adapter raised in a cycle that found a stored snapshot with an
\* available ticket.
C1_Witness ==
    /\ pc = "result"
    /\ world.entry = "error"
    /\ prev_file.state = "json"
    /\ \E i \in 1..Len(DetailsOf(prev_file.data)) :
          DetailsOf(prev_file.data)[i].status = "Available"

\* The run's scrape was cut short by a timeout or an exception
KwCutShort == KwScrape(kw_env.page, kw_env.fail).raised

\* C2: in the keyword-categorized monitors, if a wait times out or an
\* exception is raised after the current snapshot was initialised and before
\* every keyword was scraped, the status file is not written and no change is
\* signalled.
C2_IncompleteDiscarded ==
    (kw_pc = "done" /\ KwCutShort) =>
        /\ kw_file = kw_prev_file
        /\ kw_out.change # "true"

\* C5: when the traversal returns several records with the same name, the
\* snapshot keeps the status of the first-seen record.
C5_FirstSeenWins ==
    (pc = "result" /\ out.stage \in {"stored", "same"}) =>
        \A i \in 1..Len(out.current_status["General"].details) :
            LET t == out.current_status["General"].details[i]
            IN  t.status = FirstWith(out.all_tickets, t.name).status

\* C6: every snapshot written to a status file has its details in strictly
\* increasing order of ticket name (pairwise distinct and sorted).
C6_WrittenSorted ==
    /\ status_file.state = "json" => StrictlyIncreasing(DetailsOf(status_file.data))
    /\ (pc = "result" /\ out.stage \in {"stored", "same"}) =>
          /\ StrictlyIncreasing(DetailsOf(out.current_status))
          /\ NamesOf(DetailsOf(out.current_status)) = NamesOf(out.all_tickets)

\* A snapshot was written from a traversal that met the tickets out of order.
C6_Witness ==
    /\ pc = "result"
    /\ out.writes = 1
    /\ Len(out.all_tickets) >= 2
    /\ StrLess(out.all_tickets[2].name, out.all_tickets[1].name)
    /\ DetailsOf(status_file.data) # out.all_tickets

\* C8: no returned record has a name that equals or starts with, letter case
\* aside, a configured excluded prefix, also when the name as scraped holds
\* non-ASCII characters or irregular whitespace that normalisation removes.
C8_NoExcludedName ==
    sv_done =>
        /\ \A i \in 1..Len(sv_out) :
              \A p \in sv_excl : ~StartsWithCI(sv_out[i].name, p)
        /\ \A i \in 1..Len(sv_menu) :
              \A p \in sv_excl : ~StartsWithCI(sv_menu[i].name, p)

\* A row whose name as scraped does not start with the prefix, and whose
\* normalised name does, was scraped and left out.
C8_Witness ==
    /\ sv_done
    /\ sv_out = <<>>
    /\ \E i \in 1..Len(sv_rows) : \E p \in sv_excl :
          /\ p # <<>>
          /\ ~StartsWithCI(sv_rows[i].name, p)
          /\ StartsWithCI(normalize_text(sv_rows[i].name), p)
          /\ ~StartsWith(normalize_text(sv_rows[i].name), p)

HasWsRun(s) == \E i \in 1..(Len(s) - 1) : IsSpace(s[i]) /\ IsSpace(s[i + 1])

HasEdgeWs(s) == s # <<>> /\ (IsSpace(s[1]) \/ IsSpace(s[Len(s)]))

\* C9: normalize_text is idempotent: applied to its own result it returns
\* that result; the result holds no non-ASCII character, no run of two or
\* more whitespace characters and no leading or trailing whitespace.
C9_NormalizeIdempotent ==
    /\ tx_calls = 2 => tx_out = tx_prev
    /\ tx_calls >= 1 =>
          /\ \A i \in 1..Len(tx_out) : IsAscii(tx_out[i])
          /\ ~HasWsRun(tx_out)
          /\ ~HasEdgeWs(tx_out)

\* A string whose whitespace runs only meet once the non-ASCII character
\* between them is removed has been normalised twice.
C9_Witness ==
    /\ tx_calls = 2
    /\ \E i \in 2..(Len(tx_in) - 1) :
          /\ ~IsAscii(tx_in[i])
          /\ IsSpace(tx_in[i - 1])
          /\ IsSpace(tx_in[i + 1])
    /\ \E i \in 1..Len(tx_in) : tx_in[i] = 1
    /\ tx_out # tx_in
    /\ Len(tx_out) >= 3

-----------------------------------------------------------------------------
(* Properties of partial failures, reordering and the diff *)

\* The ticket names a walk without failures gathers and this cycle's did not
Omitted ==
    NamesOf(Reference(world.page, config.exclude_prefixes, 0))
        \ NamesOf(out.all_tickets)

\* The cycle built a snapshot from what traverse_menu returned
Compared == pc = "result" /\ ~Unreached /\ out.stage \in {"stored", "same"}

\* C3: if, in a cycle whose content wait succeeded, branches of the option
\* tree fail so that the tickets under them are not extracted, the status
\* file is not overwritten with a snapshot that omits those tickets and
\* change_detected = true is not returned because of them.
C3_PartialFailureHarmless ==
    (Compared /\ Omitted # {}) =>
        /\ out.writes = 0
        /\ status_file = prev_file
        /\ ~(/\ out.res.change_detected
             /\ \E i \in 1..Len(out.res.html_body) :
                   /\ out.res.html_body[i].name \in Omitted
                   /\ out.res.html_body[i].highlighted)

\* View n lies in the branch that opens with view b
RECURSIVE InBranch(_, _, _)
InBranch(page, n, b) ==
    IF n = b THEN TRUE
    ELSE IF n = 0 THEN FALSE
    ELSE InBranch(page, page[n].parent, b)

\* What traverse_menu leaves behind when called with view v shown
CallAt(v) ==
    IF v = 0 THEN tm_walk ELSE traverse_menu(tm_page, tm_faults, tm_excl, v)

\* Option o of a view: something raises in another branch of that view, none
\* in o's own, and o is not excluded
SiblingOfFailure(v, o) ==
    /\ o.to # NoView
    /\ \A n \in DOMAIN tm_page : InBranch(tm_page, n, o.to) => tm_faults[n] = "none"
    /\ \E j \in 1..Len(tm_page[v].options) :
          LET s == tm_page[v].options[j]
          IN  /\ s.to # NoView
              /\ s.to # o.to
              /\ \E n \in DOMAIN tm_page :
                    InBranch(tm_page, n, s.to) /\ tm_faults[n] # "none"
    /\ ~IsExcluded(normalize_text(OptionRaw(o)), tm_excl)

IsIn(t, tickets) == \E k \in 1..Len(tickets) : tickets[k] = t

\* C4: in traverse_menu, if interacting with one of several sibling options
\* raises (click, recursive traversal of the branch, back step), the
\* exception is not propagated to the caller, and the leaf records of every
\* other non-excluded sibling branch are still in the returned list.
C4_SiblingsSurvive ==
    (tm_done /\ tm_page = Repaired(tm_page)) =>
        \A v \in DOMAIN tm_page :
            tm_faults[v] = "none" =>
                /\ ~CallAt(v).raised
                /\ \A i \in 1..Len(tm_page[v].options) :
                      LET o == tm_page[v].options[i]
                      IN  SiblingOfFailure(v, o) =>
                              \A k \in 1..Len(Reference(tm_page, tm_excl, o.to)) :
                                  IsIn(Reference(tm_page, tm_excl, o.to)[k],
                                       CallAt(v).found)

\* The page with the options of its first view in another order
Reorderings(page) ==
    LET opts == page[0].options
        n == Len(opts)
    IN  {[page EXCEPT ![0].options = [i \in 1..n |-> opts[f[i]]]] :
            f \in {g \in [1..n -> 1..n] : \A a, b \in 1..n : g[a] = g[b] => a = b}}

\* Nothing goes wrong in this cycle's traversal
Untroubled ==
    /\ world.page = Repaired(world.page)
    /\ world.faults = NoFaults(world.page)

\* The snapshot of the page walked in every other order of its branches
SameInEveryOrder ==
    \A q \in Reorderings(world.page) :
        CurrentStatus(traverse_menu(q, world.faults, config.exclude_prefixes, 0).found)
            = out.current_status

\* C7: for a fixed set of leaf views the snapshot after dedup and sort is
\* identical for every order in which the branches are enumerated, also when
\* a ticket name occurs under two branches with different statuses.
C7_OrderIndependent == (Compared /\ Untroubled) => SameInEveryOrder

PrevDetails == DetailsOf(prev_file.data)
CurrDetails == DetailsOf(out.current_status)

\* The stored and the current snapshot differ in their ticket names only
OnlyNamesDiffer ==
    /\ prev_file.state = "json"
    /\ "General" \in DOMAIN prev_file.data
    /\ prev_file.data["General"].found
    /\ NamesOf(PrevDetails) # NamesOf(CurrDetails)
    /\ \A n \in NamesOf(PrevDetails) \cap NamesOf(CurrDetails) :
          LastWith(PrevDetails, n).status = LastWith(CurrDetails, n).status

Synced ==
    /\ out.writes = 1
    /\ status_file = JsonFile(out.current_status)
    /\ ~out.res.change_detected

\* C10: when the previous and current snapshots differ only by
\* ticket names added or removed, no common ticket having another status,
\* the status file is overwritten and change_detected = false.
C10_NameChangesSync == (Compared /\ OnlyNamesDiffer) => Synced

\* C10 (amended): when the previous and current snapshots differ only by
\* ticket names that were removed and were stored as "Sold out" (no name
\* added, no common ticket with another status), the status file is
\* overwritten with the current snapshot and change_detected = false.
C10_SoldOutRemovalsSync ==
    (/\ Compared
     /\ OnlyNamesDiffer
     /\ NamesOf(CurrDetails) \subseteq NamesOf(PrevDetails)
     /\ \A n \in NamesOf(PrevDetails) \ NamesOf(CurrDetails) :
           LastWith(PrevDetails, n).status = "Sold out") => Synced

\* A sold-out ticket left the page while an available one stayed.
C10_Witness ==
    /\ Compared
    /\ OnlyNamesDiffer
    /\ Len(PrevDetails) = 2
    /\ Len(CurrDetails) = 1
    /\ CurrDetails[1].status = "Available"
    /\ \A n \in NamesOf(PrevDetails) \ NamesOf(CurrDetails) :
           LastWith(PrevDetails, n).status = "Sold out"
    /\ Synced

-----------------------------------------------------------------------------
(* Properties of the report *)

\* Some ticket name of both snapshots has another status than it had
CommonStatusChanged ==
    /\ prev_file.state = "json"
    /\ \E n \in NamesOf(PrevDetails) \cap NamesOf(CurrDetails) :
          LastWith(PrevDetails, n).status # LastWith(CurrDetails, n).status

\* The report has one row per name of the union of both snapshots
OneRowPerName ==
    LET body == out.res.html_body
    IN  /\ {body[i].name : i \in 1..Len(body)}
              = NamesOf(PrevDetails) \cup NamesOf(CurrDetails)
        /\ \A i, j \in 1..Len(body) : body[i].name = body[j].name => i = j

\* The row of name n is highlighted exactly when its status differs: a name
\* of both snapshots by its two statuses, a name met for the first time
\* always (previous "N/A"), a name that left the page when it was not stored
\* as "Sold out" (current "Sold out")
HighlightedIffDiffers ==
    \A i \in 1..Len(out.res.html_body) :
        LET r == out.res.html_body[i]
            in_prev == r.name \in NamesOf(PrevDetails)
            in_curr == r.name \in NamesOf(CurrDetails)
        IN  r.highlighted <=>
                IF in_prev /\ in_curr
                THEN LastWith(PrevDetails, r.name).status
                         # LastWith(CurrDetails, r.name).status
                ELSE IF in_curr THEN TRUE
                ELSE LastWith(PrevDetails, r.name).status # "Sold out"

\* C11: whenever some ticket name of both the previous and the current
\* 'General' details has a different status, execute_checkout_scraping
\* returns change_detected = true with a report that has one row per ticket
\* name of the union of both snapshots and highlights exactly the rows whose
\* current status differs from the previous status.
C11_StatusChangeReported ==
    (Compared /\ CommonStatusChanged) =>
        /\ out.res.change_detected
        /\ OneRowPerName
        /\ HighlightedIffDiffers

\* A ticket went from "Sold out" to "Available" while another, stored as
\* "Sold out", left the page: two rows, the first highlighted.
C11_Witness ==
    /\ Compared
    /\ CommonStatusChanged
    /\ NamesOf(PrevDetails) \ NamesOf(CurrDetails) # {}
    /\ Len(out.res.html_body) = 2
    /\ out.res.html_body[1].highlighted
    /\ ~out.res.html_body[2].highlighted
    /\ out.res.html_body[1].current = "Available"

-----------------------------------------------------------------------------
(* Properties of the writes of the status file *)

\* C12: within one site's cycle the status file is written at most once, and
\* only after the scraping of that site has fully completed: no write
\* happens for a scrape that was cut short.
C12_WriteOnceWhenComplete ==
    kw_pc = "done" =>
        /\ kw_out.writes <= 1
        /\ kw_out.writes = 1 => kw_out.complete
        /\ kw_file # kw_prev_file => kw_out.writes = 1

-----------------------------------------------------------------------------
(* Properties of the batch loops *)

\* The sites from the first to the n-th, in configuration order
FirstSites(n) == [k \in 1..n |-> k]

Admitted ==
    \/ b_boot = "ok"
    \/ b_boot = "no_creds" /\ b_monitor = "pages"

-----------------------------------------------------------------------------
(* Termination of traverse_menu *)

\* The depth of the option hierarchy below a view: the longest chain of
\* options that open a view
RECURSIVE HierarchyDepth(_, _)
HierarchyDepth(page, view) ==
    LET kids == {page[view].options[i].to : i \in DOMAIN page[view].options} \ {NoView}
    IN  IF kids = {} THEN 0
        ELSE 1 + (CHOOSE d \in {HierarchyDepth(page, k) : k \in kids} :
                     \A k \in kids : HierarchyDepth(page, k) <= d)

\* No option is clicked again by a deeper call of traverse_menu
NeverAgainDeeper(clicks) ==
    \A i \in 1..Len(clicks) : \A j \in 1..Len(clicks) :
        (i < j /\ clicks[i].view = clicks[j].view /\ clicks[i].text = clicks[j].text)
            => clicks[j].depth <= clicks[i].depth

\* C14: traverse_menu terminates on every page whose option hierarchy is
\* finite, also when a click leaves the view unchanged or no Back button
\* exists: its recursion is no deeper than the hierarchy (so it never runs
\* into the interpreter's recursion limit) and no option is activated again
\* at a deeper recursion level.
C14_TraversalBoundedByHierarchy ==
    tm_done =>
        /\ tm_walk.deepest <= HierarchyDepth(tm_page, 0)
        /\ tm_walk.deepest <= MaxDepth
        /\ NeverAgainDeeper(tm_walk.clicks)

-----------------------------------------------------------------------------
(* A status file that cannot be read *)

\* The cycle of check_hyrox_pages ended as it would have without a file
PagesAsWithoutFile ==
    LET ref == process_ticket_details_site(world, config, MissingFile)
    IN  /\ ~out.raised
        /\ out.res = ref.res
        /\ out.current_status = ref.current_status
        /\ out.writes = ref.writes

\* The run of a keyword monitor ended as it would have without a file
KeywordAsWithoutFile ==
    LET ref == IF kw_monitor = "sg"
               THEN sg_main(kw_env.page, kw_env.fail, MissingFile)
               ELSE process_site(kw_env.page, kw_env.fail, MissingFile)
    IN  /\ kw_out.raised = ref.raised
        /\ kw_out.change = ref.change
        /\ kw_out.current_status = ref.current_status
        /\ kw_out.writes = ref.writes

\* C15: when the status file is missing, unreadable or not valid JSON, every
\* monitor treats it as "no prior snapshot" and completes the cycle as it
\* does without a file; the read error is never raised out of the site's
\* processing.
C15_UnreadableFileIsNoPrior ==
    /\ (pc = "result" /\ prev_file.state # "json") => PagesAsWithoutFile
    /\ (kw_pc = "done" /\ kw_prev_file.state # "json") => KeywordAsWithoutFile

-----------------------------------------------------------------------------
(* The availability matrix *)

\* The records of the snapshot stored for a site; none without a readable file
StoredRecords(name) ==
    IF mx_status[name].state = "json"
    THEN mx_status[name].data["General"].details
    ELSE <<>>

\* cat is a longest label contained in the record's name, upper-cased and
\* without apostrophes
LongestContained(t, cat) ==
    LET norm_name == _normalize_for_matrix(t.name)
    IN  /\ Contains(cat, norm_name)
        /\ \A other \in CategorySet :
              Contains(other, norm_name) => Len(other) <= Len(cat)

Marks(t, cat) == t.status = "Available" /\ LongestContained(t, cat)

\* C16: in generate_availability_matrix, every "Available" record marks
\* exactly the cell of the longest display-category label contained in its
\* matrix-normalized name, and no cell when it contains none (so a record
\* matching a more specific label never marks a shorter label's cell); a cell
\* is true iff at least one "Available" record of that site's stored snapshot
\* marks it; other records mark nothing.
C16_LongestLabelMarked ==
    mx_pc = "done" =>
        \A i \in DOMAIN mx_sites :
            LET name == mx_sites[i]
                records == StoredRecords(name)
            IN  /\ \A cat \in CategorySet :
                      mx_out.curr_matrix[name][cat]
                          = (\E k \in DOMAIN records : Marks(records[k], cat))
                /\ \A k \in DOMAIN records :
                      Cardinality({cat \in CategorySet : Marks(records[k], cat)}) <= 1

\* "Hyrox Men's Relay" is available at site A: the cell of HYROX MENS RELAY
\* is true, the cell of HYROX MEN is not
C16_Witness ==
    /\ mx_pc = "done"
    /\ \E k \in DOMAIN StoredRecords("A") :
          StoredRecords("A")[k] = [name |-> NameMensRelay, status |-> "Available"]
    /\ mx_out.curr_matrix["A"][HyroxMensRelay]
    /\ ~mx_out.curr_matrix["A"][HyroxMen]

\* The cell of the prior grid, a missing cell counting as false
PriorCell(name, cat) ==
    IF name \in DOMAIN mx_out.prev_matrix
    THEN IF cat \in DOMAIN mx_out.prev_matrix[name]
         THEN mx_out.prev_matrix[name][cat]
         ELSE FALSE
    ELSE FALSE

\* The cells of the current grid that differ from the prior grid
DifferingCells ==
    {cell \in (DOMAIN mx_out.curr_matrix) \X CategorySet :
        mx_out.curr_matrix[cell[1]][cell[2]] # PriorCell(cell[1], cell[2])}

\* C17: for every prior grid and current snapshots, if at least one cell
\* differs (a missing prior cell counting as false), the run reports
\* matrix_changed=true, marks that cell as flipped in the rendered output
\* and writes the current grid to the matrix state file.
C17_DifferenceReported ==
    (mx_pc = "done" /\ DifferingCells # {}) =>
        /\ mx_out.matrix_changed = "true"
        /\ DifferingCells \subseteq mx_out.flipped
        /\ mx_out.writes = 1
        /\ mx_state_file = JsonFile(mx_out.curr_matrix)

\* Site B, absent from the prior grid, has HYROX MEN available
C17_Witness ==
    /\ mx_pc = "done"
    /\ mx_sites = <<"A", "B">>
    /\ DOMAIN mx_out.prev_matrix = {"A"}
    /\ mx_out.curr_matrix["B"][HyroxMen]
    /\ <<"B", HyroxMen>> \in mx_out.flipped
    /\ mx_out.matrix_changed = "true"
    /\ mx_state_file = JsonFile(mx_out.curr_matrix)

-----------------------------------------------------------------------------
(* The found flag *)

\* No entry of the snapshot has records without being found
NoDetailsUnlessFound(status) ==
    \A k \in DOMAIN status : ~status[k].found => status[k].details = <<>>

\* C18: in every snapshot a monitor constructs or writes, an entry with
\* found=false has an empty details list.
C18_NotFoundMeansNoDetails ==
    /\ kw_pc = "done" =>
          /\ NoDetailsUnlessFound(kw_out.current_status)
          /\ kw_out.writes = 1 => NoDetailsUnlessFound(kw_file.data)
    /\ pc = "result" =>
          /\ NoDetailsUnlessFound(out.current_status)
          /\ out.writes = 1 => NoDetailsUnlessFound(status_file.data)

\* A written snapshot with a keyword that was not found and one that was
\* found with a sold-out ticket
C18_Witness ==
    /\ kw_pc = "done"
    /\ kw_out.writes = 1
    /\ kw_file = JsonFile(kw_out.current_status)
    /\ \E k \in KeywordSet : ~kw_out.current_status[k].found
    /\ \E k \in KeywordSet :
          /\ kw_out.current_status[k].found
          /\ Len(kw_out.current_status[k].details) = 1
          /\ kw_out.current_status[k].details[1].status = "Sold out"

-----------------------------------------------------------------------------
(* A scraped view without tickets, and a view never scraped *)

\* The content wait succeeded and traverse_menu returned no record
ScrapedNothing ==
    /\ ~Unreached
    /\ out.stage \in {"stored", "same"}
    /\ out.all_tickets = <<>>

EmptySnapshot == [General |-> [found |-> TRUE, details |-> <<>>]]

\* A ticket of the snapshot the cycle found was available
WasAvailable ==
    \E k \in DOMAIN DetailsOf(LoadPrevious(prev_file)) :
        DetailsOf(LoadPrevious(prev_file))[k].status = "Available"

\* C19: when the content wait succeeded and the traversal returns no record,
\* the cycle builds the snapshot {General: {found: true, details: []}} and
\* compares and stores it like any other; a cycle that never reached a view
\* to scrape builds no snapshot; the two are told apart by the found flag or
\* the absence of a snapshot, never by an empty list alone.
C19_EmptyViewIsASnapshot ==
    pc = "result" =>
        /\ ScrapedNothing =>
              /\ out.current_status = EmptySnapshot
              /\ out.res.change_detected = WasAvailable
              /\ IF LoadPrevious(prev_file) = EmptySnapshot
                 THEN out.writes = 0 /\ status_file = prev_file
                 ELSE out.writes = 1 /\ status_file = JsonFile(EmptySnapshot)
        /\ Unreached =>
              /\ out.current_status = EmptyDict
              /\ out.writes = 0
              /\ status_file = prev_file
        /\ out.writes = 1 => status_file.data["General"].found

\* The stored snapshot had an available ticket and the view now holds none:
\* the empty snapshot is stored and the change reported
C19_Witness ==
    /\ pc = "result"
    /\ ScrapedNothing
    /\ WasAvailable
    /\ out.res.change_detected
    /\ status_file = JsonFile(EmptySnapshot)

-----------------------------------------------------------------------------
(* Prices *)

\* The run compared the snapshot it found with the one it built, and the two
\* differ in the price of some record and in nothing else
PriceOnlyDiffers ==
    /\ kw_pc = "done"
    /\ kw_prev_file.state = "json"
    /\ kw_out.change # "unset"
    /\ kw_prev_file.data # kw_out.current_status
    /\ WithoutPrice(kw_prev_file.data) = WithoutPrice(kw_out.current_status)

\* C20: in the monitors whose records carry a price, a previous and a current
\* snapshot whose records differ only in the price compare equal: no change
\* is signalled and the status file is not rewritten.
C20_PriceIgnored ==
    PriceOnlyDiffers =>
        /\ kw_out.change = "false"
        /\ kw_out.writes = 0
        /\ kw_file = kw_prev_file

\* C20, amended: such snapshots compare unequal: a change is signalled and
\* the status file is rewritten with the current snapshot.
C20_PriceCompared ==
    PriceOnlyDiffers =>
        /\ kw_out.change = "true"
        /\ kw_out.writes = 1
        /\ kw_file = JsonFile(kw_out.current_status)

\* HYROX MEN, available at 50 in the stored snapshot, is available at 60
C20_Witness ==
    /\ PriceOnlyDiffers
    /\ \E k \in KeywordSet :
          /\ Len(kw_out.current_status[k].details) = 1
          /\ kw_out.current_status[k].details[1].price = "60"
          /\ kw_prev_file.data[k].details[1].price = "50"
    /\ kw_out.change = "true"
    /\ kw_file = JsonFile(kw_out.current_status)

-----------------------------------------------------------------------------
(* Categories of the page that are not configured keywords *)

\* The category labels of the page that are no configured keyword
UnmatchedOnPage == kw_env.page.categories \ KeywordSet

\* The run as it goes on the same page without those labels
WithoutUnmatched ==
    LET page == [kw_env.page EXCEPT !.categories = @ \cap KeywordSet]
    IN  IF kw_monitor = "sg"
        THEN sg_main(page, kw_env.fail, kw_prev_file)
        ELSE process_site(page, kw_env.fail, kw_prev_file)

\* C21: when the page of a categorized site shows a category label that is
\* not a configured keyword, the current snapshot records the label under
\* unmatchedCategories, and the unmatched category alone produces no change
\* signal.
C21_UnmatchedRecorded ==
    (kw_pc = "done" /\ kw_out.complete /\ UnmatchedOnPage # {}) =>
        /\ "unmatchedCategories" \in DOMAIN kw_out.current_status
        /\ kw_out.current_status["unmatchedCategories"] = UnmatchedOnPage
        /\ kw_out.change = WithoutUnmatched.change

-----------------------------------------------------------------------------
(* The view a sibling option is activated in *)

\* The clicks made by the call of traverse_menu itself, not by the calls it
\* makes
OwnClicks(walk) ==
    SelectSeq(walk.clicks, LAMBDA c : c.depth = 0)

\* C22: in traverse_menu, after a branch's traversal has returned and the
\* Back button was clicked, the next sibling option is activated only once
\* the parent-level view is restored; when it is not restored (or there is
\* no Back button), no element of another view, such as a child-level link
\* whose text contains the sibling's label, is activated in its place: every
\* option a call activates is an element of the view the call enumerated.
C22_SiblingActivatedInParentView ==
    tm_done =>
        \A v \in DOMAIN tm_page :
            \A k \in DOMAIN OwnClicks(CallAt(v)) : OwnClicks(CallAt(v))[k].view = v

-----------------------------------------------------------------------------
(* The options traverse_menu activates *)

\* The label of a clicked element: the first line of its text, normalised
ClickedLabel(c) == normalize_text(FirstLine(c.text))

\* C23: traverse_menu never activates an option whose normalised label
\* starts, letter case aside, with a configured excluded prefix, at any
\* depth; and at one level it activates each distinct enumerated label at
\* most once, also when two raw labels differ only in characters that
\* normalisation removes.
C23_ExcludedNeverOnceEach ==
    tm_done =>
        /\ \A k \in DOMAIN tm_walk.clicks :
              ~IsExcluded(ClickedLabel(tm_walk.clicks[k]), tm_excl)
        /\ \A v \in DOMAIN tm_page :
              LET own == OwnClicks(CallAt(v))
              IN  \A i \in DOMAIN own : \A j \in DOMAIN own :
                      (i < j /\ own[i].view = own[j].view)
                          => ClickedLabel(own[i]) # ClickedLabel(own[j])

\* The first half of C23
C23_ExcludedNeverActivated ==
    tm_done =>
        \A k \in DOMAIN tm_walk.clicks :
            ~IsExcluded(ClickedLabel(tm_walk.clicks[k]), tm_excl)

-----------------------------------------------------------------------------
(* The status of a ticket row *)

\* The record of a row: its normalised name, and "Available" iff its "Add"
\* button is displayed and enabled
RecordOf(row) ==
    [name |-> normalize_text(RowRawName(row)),
     status |-> IF row.btn = "enabled" THEN "Available" ELSE "Sold out"]

\* C24: scrape_current_view gives a ticket row the status "Available" iff
\* the row has an "Add" button that is displayed and enabled, and "Sold out"
\* in every other case (no button, hidden button, disabled button), whatever
\* sold-out CSS class the row carries: the records returned are those of the
\* rows that are not excluded.
C24_StatusFromAddButton ==
    sv_done =>
        /\ \A i \in DOMAIN sv_rows :
              ~IsExcluded(RecordOf(sv_rows[i]).name, sv_excl) =>
                  \E k \in DOMAIN sv_out : sv_out[k] = RecordOf(sv_rows[i])
        /\ \A k \in DOMAIN sv_out :
              \E i \in DOMAIN sv_rows : sv_out[k] = RecordOf(sv_rows[i])

\* A row with a sold-out class and an enabled "Add" button is "Available"
C24_Witness ==
    /\ sv_done
    /\ Len(sv_rows) = 1
    /\ sv_rows[1].sold_out_class
    /\ sv_rows[1].btn = "enabled"
    /\ Len(sv_out) = 1
    /\ sv_out[1].status = "Available"

\* A row without a sold-out class whose "Add" button is hidden is "Sold out"
C24_HiddenButton ==
    /\ sv_done
    /\ Len(sv_rows) = 1
    /\ ~sv_rows[1].sold_out_class
    /\ sv_rows[1].btn = "hidden"
    /\ Len(sv_out) = 1
    /\ sv_out[1].status = "Sold out"


-----------------------------------------------------------------------------
(* C25: rows and elements lacking a sub-field *)

\* The records of the rows of a leaf view that satisfy keep, in page order
RecordsOfRows(keep(_)) ==
    LET kept == SelectSeq(sv_rows, keep)
    IN  [i \in 1..Len(kept) |-> RecordOf(kept[i])]

IsListed(row) == ~IsExcluded(RecordOf(row).name, sv_excl)
IsListedWithName(row) == row.has_name /\ IsListed(row)

IsComplete(el) == el.has_name /\ el.has_price

\* The records of the complete elements of a category view, in page order
RecordsOfElements ==
    LET kept == SelectSeq(sv_els, IsComplete)
    IN  [i \in 1..Len(kept) |->
            [name |-> kept[i].name, price |-> kept[i].price,
             status |-> IF kept[i].sold_out THEN "Sold out" ELSE "Available"]]

\* C25 as stated: a ticket row lacking a required sub-field (the name element
\* on a checkout page; the name or the price element on a categorized site)
\* yields no record, and the records of all other rows of the view are
\* returned.
C25_MalformedRowSkipped ==
    sv_done =>
        /\ sv_els = <<>> => sv_out = RecordsOfRows(IsListedWithName)
        /\ sv_els # <<>> => sv_tickets = RecordsOfElements

\* C25 amended: on a checkout page a row lacking the name element yields a
\* record named by the normalised first line of the row's text; on a
\* categorized site an element lacking the name or the price element yields
\* no record; the records of all other rows of the view are returned.
C25_NamelessRowNamedByFirstLine ==
    sv_done =>
        /\ sv_els = <<>> =>
              /\ sv_out = RecordsOfRows(IsListed)
              /\ \A i \in DOMAIN sv_rows :
                    ~sv_rows[i].has_name =>
                        RecordOf(sv_rows[i]).name
                            = normalize_text(FirstLine(sv_rows[i].text))
        /\ sv_els # <<>> => sv_tickets = RecordsOfElements

\* A two-row leaf view whose first row has no name element and two lines of
\* text: both rows are returned, the first named by its first line.
C25_Witness ==
    /\ sv_done
    /\ Len(sv_rows) = 2
    /\ ~sv_rows[1].has_name
    /\ sv_rows[1].text = <<98, 10, 97>>
    /\ sv_rows[2].has_name
    /\ Len(sv_out) = 2
    /\ sv_out[1].name = <<98>>
    /\ sv_out[2].name = <<97>>

\* A category view whose first element has no price: only the second is
\* returned.
C25_ElementWithoutPrice ==
    /\ sv_done
    /\ Len(sv_els) = 2
    /\ sv_els[1].has_name /\ ~sv_els[1].has_price
    /\ IsComplete(sv_els[2])
    /\ Len(sv_tickets) = 1
    /\ sv_tickets[1].name = sv_els[2].name


-----------------------------------------------------------------------------
(* C26: the same list in the next cycle *)

\* The latest call got its list from traverse_menu
Traversed(o) == o.stage \in {"stored", "same", "write_failed"}

\* The call before the latest wrote a snapshot and the latest call's
\* traversal returned the same list of records
SameListAgain ==
    /\ rp_last.wrote
    /\ Traversed(rp_out)
    /\ rp_out.all_tickets = rp_last.all_tickets

\* C26: when a cycle of execute_checkout_scraping wrote a snapshot and the
\* next cycle's traversal returns the same list of records, the next cycle
\* returns change_detected = false and does not write the status file, which
\* still holds the snapshot: a status change is notified once.
C26_SameListIsNoChange ==
    SameListAgain =>
        /\ ~rp_out.res.change_detected
        /\ ~rp_out.raised
        /\ rp_out.writes = 0
        /\ rp_file = JsonFile(CurrentStatus(rp_last.all_tickets))

\* A cycle stored a list with an available ticket and the next cycle found the
\* same list.
C26_Witness ==
    /\ SameListAgain
    /\ \E i \in DOMAIN rp_out.all_tickets : rp_out.all_tickets[i].status = "Available"
    /\ rp_out.stage = "same"


-----------------------------------------------------------------------------
(* C27: the write precedes the change event *)

\* The cycle came to write the status file and the write failed
WriteFailed == pc = "result" /\ world.disk # "ok" /\ out.stage = "write_failed"

\* C27: whenever a cycle returns change_detected = true the status file
\* holds exactly that cycle's snapshot, written by that cycle; and when the
\* write of the status file fails, process_ticket_details_site returns no
\* change event for the site.
C27_WriteBeforeEvent ==
    pc = "result" =>
        /\ out.res.change_detected =>
              /\ out.writes = 1
              /\ status_file = JsonFile(out.current_status)
              /\ out.current_status = CurrentStatus(out.all_tickets)
        /\ WriteFailed => ~out.res.change_detected /\ ~out.raised

\* A status change was found, json.dump failed after the file was truncated,
\* and no change event came back.
C27_Witness ==
    /\ WriteFailed
    /\ world.disk = "dump_fails"
    /\ generate_diff_html(LoadPrevious(prev_file), out.current_status).changes_found
    /\ status_file = CorruptFile
    /\ ~out.res.change_detected

\* A change event came back and the file holds the snapshot of the cycle.
C27_EventWithFile ==
    /\ pc = "result"
    /\ out.res.change_detected
    /\ status_file = JsonFile(out.current_status)
    /\ prev_file # status_file


-----------------------------------------------------------------------------
(* C28: the whole hierarchy is walked *)

\* The page is walked as C28 supposes: every option opens a view, every view
\* but the first has a working Back button, and nothing goes wrong
SoundPage ==
    /\ tm_faults = NoFaults(tm_page)
    /\ tm_page = Repaired(tm_page)
    /\ \A v \in DOMAIN tm_page :
          \A i \in DOMAIN tm_page[v].options : tm_page[v].options[i].to # NoView

\* The displayed options of view v whose normalised label has no excluded
\* prefix
ListedOptions(v) ==
    {o \in {Options(tm_page[v])[i] : i \in DOMAIN Options(tm_page[v])} :
        /\ o.displayed
        /\ ~IsExcluded(normalize_text(OptionRaw(o)), tm_excl)}

\* View v yields records of its own: it is a leaf view
IsLeafView(v) == scrape_current_view(tm_page[v].rows, tm_excl) # <<>>

\* View n is reached from the first view through listed options only
RECURSIVE ReachedThroughListed(_)
ReachedThroughListed(n) ==
    IF n = 0 THEN TRUE
    ELSE LET parent == tm_page[n].parent
         IN  /\ ~IsLeafView(parent)
             /\ \E o \in ListedOptions(parent) : o.to = n
             /\ ReachedThroughListed(parent)

\* How often the option with the given text was activated in view v
Activations(v, text) ==
    Cardinality({k \in DOMAIN tm_walk.clicks :
                    tm_walk.clicks[k].view = v /\ tm_walk.clicks[k].text = text})

\* C28: on a page whose option hierarchy is a finite tree, with a working
\* Back button and no failing interaction, traverse_menu activates every
\* displayed non-excluded option of every level it reaches exactly once and
\* returns the records of every leaf view reachable through non-excluded
\* options: no enumerated option is left out.
C28_WholeTreeWalked ==
    (tm_done /\ SoundPage) =>
        /\ ~tm_walk.raised
        /\ \A v \in DOMAIN tm_page :
              (ReachedThroughListed(v) /\ ~IsLeafView(v)) =>
                  \A o \in ListedOptions(v) : Activations(v, o.text) = 1
        /\ \A v \in DOMAIN tm_page :
              (ReachedThroughListed(v) /\ IsLeafView(v)) =>
                  LET records == scrape_current_view(tm_page[v].rows, tm_excl)
                  IN  \A i \in DOMAIN records :
                          \E k \in DOMAIN tm_walk.found : tm_walk.found[k] = records[i]

\* The labels of the page are told apart by the lookup: no two options of a
\* view have the same normalised label, and the whole normalised text of
\* every option is its normalised label
PlainLabels ==
    \A v \in DOMAIN tm_page :
        LET options == tm_page[v].options
        IN  /\ \A i \in DOMAIN options :
                  normalize_text(options[i].text) = normalize_text(OptionRaw(options[i]))
            /\ \A i \in DOMAIN options : \A j \in DOMAIN options :
                  i # j => normalize_text(OptionRaw(options[i]))
                               # normalize_text(OptionRaw(options[j]))

\* On pages with plain labels the whole tree is walked
C28_PlainTreeWalked ==
    PlainLabels => C28_WholeTreeWalked


-----------------------------------------------------------------------------
(* C29: the grid reported as changed *)

\* C29: generate_availability_matrix reports matrix_changed=true and
\* rewrites the matrix state file only if at least one displayed cell
\* (configured site, display category) differs from the prior grid, a
\* missing prior cell counting as false; when no displayed cell differs, also
\* when only the set of configured sites changed, it reports
\* matrix_changed=false and leaves the state file as it was.
C29_ChangedOnlyIfCellDiffers ==
    (mx_pc = "done" /\ DifferingCells = {}) =>
        /\ mx_out.matrix_changed = "false"
        /\ mx_out.writes = 0

\* The same with a prior grid that has a row for exactly the configured
\* sites
C29_SameSitesChangedOnlyIfCellDiffers ==
    (DOMAIN mx_out.prev_matrix = DOMAIN mx_out.curr_matrix)
        => C29_ChangedOnlyIfCellDiffers

\* A site was removed from the configuration and no displayed cell differs:
\* the run reports a change and rewrites the state file.
C29_SiteRemovedReported ==
    /\ mx_pc = "done"
    /\ mx_sites = <<"A">>
    /\ DOMAIN mx_out.prev_matrix = {"A", "B"}
    /\ DifferingCells = {}
    /\ mx_out.matrix_changed = "true"
    /\ mx_out.writes = 1

================================================================================
